---- MODULE Spec2Model ----
(***************************************************************************)
(* memflow-win32: the process list walk of Win32Kernel, the ordering and   *)
(* equality of Win32Version, and the key-state bit math of Win32Keyboard.  *)
(***************************************************************************)
EXTENDS Integers, Naturals, Sequences, FiniteSets, TLC

(***************************************************************************)
(* Bounds of the model.                                                    *)
(***************************************************************************)
\* number of LIST_ENTRY slots the target memory holds (the head included)
NumEntries == 3

(***************************************************************************)
(* Program constants and the inputs of Win32Kernel.                        *)
(***************************************************************************)
MAX_ITER_COUNT == 65536

\* Address::NULL
NULL == 0

\* offsets.eproc_link(): ActiveProcessLinks inside EPROCESS (x64, 0x448)
eproc_link == 1096
\* offsets.list_blink(): Blink inside LIST_ENTRY (x64)
list_blink == 8
\* kernel_info.eprocess_base
eprocess_base == 8192
\* distance between two EPROCESS structures of the modelled target
EprocStride == 4096

\* list_start of process_address_list_callback
list_start == eprocess_base + eproc_link

\* the LIST_ENTRY addresses the target maps
Entries == { list_start + k * EprocStride : k \in 0..(NumEntries - 1) }
\* a non-null address outside every mapped LIST_ENTRY
Wild == list_start + NumEntries * EprocStride
\* the pointer-sized words of target memory the walk can address
Words == Entries \cup { e + list_blink : e \in Entries }
\* values a Flink field can hold
FlinkValues == {NULL, Wild} \cup Entries
\* values a Blink field can hold
BlinkValues == {NULL, list_start}
\* number of addresses passed to the callback that the model records
MaxTrace == NumEntries + 2

\* a local that has not been assigned in this iteration
Unset == -1

VARIABLES
    mem,          \* target memory: word address -> pointer value
    unreadable,   \* word addresses whose read fails
    walk_pc,      \* position inside process_address_list_callback
    list_entry,   \* local list_entry
    iter,         \* iterations of the for loop started so far
    flink_entry,  \* local flink_entry of the current iteration
    blink_entry,  \* local blink_entry of the current iteration
    yielded,      \* addresses passed to the callback (first MaxTrace of them)
    ncalls,       \* number of callback invocations
    nreads,       \* number of target reads issued
    cb_ret,       \* last value returned by the callback ("none" before)
    walk_result   \* return value of process_address_list_callback

walk_vars == << mem, unreadable, walk_pc, list_entry, iter, flink_entry,
                blink_entry, yielded, ncalls, nreads, cb_ret, walk_result >>

VARIABLES
    ver_a,        \* self of the last Win32Version comparison
    ver_b,        \* other of the last Win32Version comparison
    ver_op,       \* the comparison made: "cmp", "eq" or "none"
    ver_out       \* its result

ver_vars == << ver_a, ver_b, ver_op, ver_out >>

VARIABLES
    key_state,    \* the 64 bytes of target memory at key_state_addr
    key_state_map,\* how the target maps them: "rw", "ro" or "unmapped"
    buffer,       \* Win32KeyboardState.buffer, << >> before state()
    kbd_op,       \* the last keyboard operation and its arguments
    kbd_out       \* its outcome

kbd_vars == << key_state, key_state_map, buffer, kbd_op, kbd_out >>

VARIABLES
    loc_winver,   \* kernel.kernel_info.kernel_winver
    loc_modules,  \* names of the kernel modules module_by_name can find
    loc_list_ok,  \* whether kernel.process_info_list() succeeds
    loc_procs,    \* the process list it returns, in list order
    loc_pc,       \* position inside find_keystate
    loc_i,        \* index in loc_procs of the next element of procs.iter()
    loc_tried,    \* indices passed to find_in_user_process so far
    loc_sel,      \* what the last find_in_user_process call selected
    loc_result    \* return value of find_keystate

loc_vars == << loc_winver, loc_modules, loc_list_ok, loc_procs, loc_pc, loc_i,
               loc_tried, loc_sel, loc_result >>

VARIABLES
    kernel_pc,      \* "raw" before Win32Kernel::new, "ready" after, else "idle"
    kernel_info_dtb,\* kernel_info.dtb, the DTB of the start block
    eproc_dtb_word, \* the target's word at eprocess_base + kproc_dtb
    vat_dtb,        \* the DTB of virt_mem's Win32VirtualTranslate
    sysproc_dtb,    \* Win32Kernel::sysproc_dtb
    kernel_modules, \* Win32Kernel::kernel_modules, the memo
    target,         \* what the target answers on the way to the list head
    kernel_calls,   \* number of kernel_modules() calls made
    kernel_out      \* the last operation on the kernel and its outcome

kern_vars == << kernel_pc, kernel_info_dtb, eproc_dtb_word, vat_dtb,
                sysproc_dtb, kernel_modules, target, kernel_calls, kernel_out >>

VARIABLES
    pi_arch,        \* kernel_info.os_info.arch
    pi_winver,      \* kernel_info.kernel_winver
    pi_wow64_offs,  \* offsets.eproc_wow64()
    pi_mem,         \* the pointers the target holds for the process
    pi_fail,        \* the step whose target access fails, or "none"
    pi_op,          \* the function called on the kernel, or "none"
    pi_reads,       \* the steps that accessed the target during the call
    pi_out          \* what the call returned

pi_vars == << pi_arch, pi_winver, pi_wow64_offs, pi_mem, pi_fail, pi_op,
              pi_reads, pi_out >>

VARIABLES
    sig_tokens,   \* the tokens given to ida_regex!
    module_buf,   \* the bytes the signature is searched in
    sig_checks,   \* whether the build has overflow checks (debug-assertions)
    sig_op,       \* the function applied, or "none"
    sig_out       \* what it produced

sig_vars == << sig_tokens, module_buf, sig_checks, sig_op, sig_out >>

VARIABLES
    nt_pages,     \* the sampled pages of [2 GiB, 2 GiB + 256 MiB): index -> page
    nt_failing,   \* the 8 MiB windows whose read fails entirely
    nt_op,        \* "find" once x86::find was called, else "none"
    nt_out        \* what x86::find returned

nt_vars == << nt_pages, nt_failing, nt_op, nt_out >>

VARIABLES
    ver_view      \* what the accessors and Display of ver_a returned so far

vo_vars == << ver_view >>

VARIABLES
    kp_winver,    \* kernel.kernel_info.kernel_winver
    kp_env,       \* what the target answers to find_in_user_process
    kp_pc,        \* position inside find_in_user_process
    kp_loc,       \* its locals
    kp_steps,     \* the lookups made so far, in order
    kp_out        \* its return value

kp_vars == << kp_winver, kp_env, kp_pc, kp_loc, kp_steps, kp_out >>

VARIABLES
    kn_env,       \* offsets, kernel_info and target given to Win32Kernel::new
    kn_log        \* what new has asked of the connector, in order

kn_vars == << kn_env, kn_log >>

VARIABLES
    sd_mem,       \* the target's 64 key-state bytes while set_down runs
    sd_map,       \* how the target maps them: "rw", "ro" or "unmapped"
    sd_pc,        \* position inside set_down
    sd_op,        \* the arguments of the set_down call
    sd_buf,       \* set_down's local buffer
    sd_seen,      \* the target's bytes at the moment of the write-back
    sd_writes,    \* the writes set_down has issued
    sd_changes,   \* the changes the target has made itself
    sd_out        \* what set_down returned

sd_vars == << sd_mem, sd_map, sd_pc, sd_op, sd_buf, sd_seen, sd_writes, sd_changes, sd_out >>

vars == << walk_vars, ver_vars, kbd_vars, loc_vars, kern_vars, pi_vars, sig_vars, nt_vars, vo_vars, kp_vars, kn_vars, sd_vars >>

(***************************************************************************)
(* VirtualDma::read_addr_arch: Err on a failed read, else the pointer.     *)
(***************************************************************************)
ReadFails(addr) == addr \notin DOMAIN mem \/ addr \in unreadable

read_addr_arch(addr) == mem[addr]

\* what the ? operator returns when the read at list entry `entry` fails
OnReadFailure_QuietAfterHead(entry) ==
    IF entry = list_start THEN "Err" ELSE "Ok"

OnReadFailure(entry) == "Err"

\* the break condition of the loop body
StopCondition_NoHeadTest(flink, blink, start, entry) ==
    \/ flink = NULL
    \/ blink = NULL
    \/ flink = entry

StopCondition_NoBlinkTest(flink, blink, start, entry) ==
    \/ flink = NULL
    \/ flink = start
    \/ flink = entry

StopCondition(flink, blink, start, entry) ==
    \/ flink = NULL
    \/ blink = NULL
    \/ flink = start
    \/ flink = entry

\* eprocess = list_entry - eproc_link
EprocessOf_NoSub(entry) == entry

EprocessOf(entry) == entry - eproc_link

\* if !callback.call(eprocess) { break; }
CallbackStops_Never(ret) == FALSE

CallbackStops(ret) == ~ret

\* the range of the for loop: another iteration starts iff fewer than
\* MAX_ITER_COUNT have started
LoopContinues(n) == n < MAX_ITER_COUNT

\* the LIST_ENTRY slots on the Flink chain of m that starts at e, n links deep
RECURSIVE ChainFrom(_, _, _)
ChainFrom(m, e, n) ==
    IF n = 0 \/ e \notin Entries
      THEN {}
      ELSE {e} \cup ChainFrom(m, m[e], n - 1)

\* the slots the walk can reach from the list head
OnChain(m) == ChainFrom(m, list_start, NumEntries)

\* the state of the parts of the program that a specification leaves alone
NoVersion ==
    [nt_major_version |-> 0, nt_minor_version |-> 0, nt_build_number |-> << 0, 0 >>]

NoKbdOp == [op |-> "none", vk |-> 0, down |-> FALSE]

VersionIdle ==
    /\ ver_a = NoVersion
    /\ ver_b = NoVersion
    /\ ver_op = "none"
    /\ ver_out = "none"

KbdIdle ==
    /\ key_state = << >>
    /\ key_state_map = "unmapped"
    /\ buffer = << >>
    /\ kbd_op = NoKbdOp
    /\ kbd_out = "none"

\* no selection made by find_in_user_process
NoSel ==
    [path |-> "none", module |-> "", sig |-> << >>,
     slots_fallback |-> 0, key_fallback |-> 0]

\* find_keystate has not returned
NoLocResult == [status |-> "none", proc |-> 0]

LocIdle ==
    /\ loc_winver = NoVersion
    /\ loc_modules = {}
    /\ loc_list_ok = FALSE
    /\ loc_procs = << >>
    /\ loc_pc = "idle"
    /\ loc_i = 0
    /\ loc_tried = << >>
    /\ loc_sel = NoSel
    /\ loc_result = NoLocResult

\* Option::None and Option::Some for an address
None == [some |-> FALSE, val |-> 0]
Some(a) == [some |-> TRUE, val |-> a]

\* a target read: Err, or Ok(val)
ReadErr == [ok |-> FALSE, val |-> 0]
ReadOk(v) == [ok |-> TRUE, val |-> v]

\* a target that has not been looked at
NoTarget == [fails |-> "none", head |-> 0]

\* no operation made on the kernel
NoKernelOut == [op |-> "none", status |-> "none", val |-> 0, reads |-> 0]

KernIdle ==
    /\ kernel_pc = "idle"
    /\ kernel_info_dtb = 0
    /\ eproc_dtb_word = ReadErr
    /\ vat_dtb = 0
    /\ sysproc_dtb = 0
    /\ kernel_modules = None
    /\ target = NoTarget
    /\ kernel_calls = 0
    /\ kernel_out = NoKernelOut

\* the pointers of a process that has not been looked at
NoProcMem == [wow64 |-> 0, peb |-> 0, teb |-> 0, peb_wow64 |-> 0]

\* no process information returned
NoProcInfo ==
    [status |-> "none", sys_arch |-> "", proc_arch |-> "", wow64 |-> 0,
     teb |-> None, teb_wow64 |-> None, peb_native |-> None,
     peb_wow64 |-> None, module_info_native |-> None,
     module_info_wow64 |-> None, path |-> "", command_line |-> ""]

ProcInfoIdle ==
    /\ pi_arch = ""
    /\ pi_winver = NoVersion
    /\ pi_wow64_offs = 0
    /\ pi_mem = NoProcMem
    /\ pi_fail = "none"
    /\ pi_op = "none"
    /\ pi_reads = {}
    /\ pi_out = NoProcInfo

\* nothing produced by a signature function
NoSigOut ==
    [status |-> "none", start |-> 0, val |-> << << 0, 0 >>, << 0, 0 >> >>,
     regex |-> ""]

SigIdle ==
    /\ sig_tokens = << >>
    /\ module_buf = << >>
    /\ sig_checks = FALSE
    /\ sig_op = "none"
    /\ sig_out = NoSigOut

\* x86::find has not returned
NoNtOut == [status |-> "none", base |-> << 0, 0 >>, size |-> 0]

NtIdle ==
    /\ nt_pages = << >>
    /\ nt_failing = {}
    /\ nt_op = "none"
    /\ nt_out = NoNtOut

\* no accessor of the version was called
NoView ==
    [build |-> << 0, 0 >>, tuple |-> << 0, 0, << 0, 0 >> >>, text |-> "",
     checked |-> FALSE, masked |-> NoVersion]

ViewIdle == ver_view = NoView

\* the address 0 as a umem: << upper 32 bits, lower 32 bits >>
ZeroUmem == << << 0, 0 >>, << 0, 0 >> >>

NoKpEnv ==
    [modules |-> {}, info_ok |-> FALSE, open_ok |-> FALSE,
     pe |-> [status |-> "none", offset |-> ZeroUmem],
     kbase_ok |-> FALSE, kbase_buf |-> << >>,
     target_ok |-> FALSE, target_buf |-> << >>,
     fail_at |-> 0, checks |-> FALSE]

NoKpLoc ==
    [sel |-> NoSel, key_state_offset |-> ZeroUmem, slots_found |-> FALSE,
     slots_offset |-> ZeroUmem, ptr |-> ZeroUmem, derefs |-> 0]

\* find_in_user_process has not returned
NoKpOut == [status |-> "none", addr |-> ZeroUmem]

KeyPathIdle ==
    /\ kp_winver = NoVersion
    /\ kp_env = NoKpEnv
    /\ kp_pc = "idle"
    /\ kp_loc = NoKpLoc
    /\ kp_steps = << >>
    /\ kp_out = NoKpOut

NoKnEnv ==
    [phys_mem_block |-> 0, arch |-> "", parse_ok |-> FALSE,
     word_mapped |-> [ok |-> FALSE, val |-> 0],
     word_unmapped |-> [ok |-> FALSE, val |-> 0]]

KernelNewIdle ==
    /\ kn_env = NoKnEnv
    /\ kn_log = << >>

SetDownIdle ==
    /\ sd_mem = << >>
    /\ sd_map = "unmapped"
    /\ sd_pc = "idle"
    /\ sd_op = NoKbdOp
    /\ sd_buf = << >>
    /\ sd_seen = << >>
    /\ sd_writes = 0
    /\ sd_changes = 0
    /\ sd_out = "none"

WalkIdle ==
    /\ mem = << >>
    /\ unreadable = {}
    /\ walk_pc = "idle"
    /\ list_entry = NULL
    /\ iter = 0
    /\ flink_entry = Unset
    /\ blink_entry = Unset
    /\ yielded = << >>
    /\ ncalls = 0
    /\ nreads = 0
    /\ cb_ret = "none"
    /\ walk_result = "none"

\* Target memory: any Flink and Blink in the slots linked from the head, and
\* at most one word there that fails to read; slots that are not linked from
\* the head are zero.
InitWalk ==
    /\ mem \in [Words -> FlinkValues]
    /\ \A e \in Entries : mem[e + list_blink] \in BlinkValues
    /\ \A e \in Entries \ OnChain(mem) :
          mem[e] = NULL /\ mem[e + list_blink] = NULL
    /\ unreadable \in { {} } \cup
          { {w} : w \in OnChain(mem) \cup { e + list_blink : e \in OnChain(mem) } }
    /\ walk_pc = "idle"
    /\ list_entry = NULL
    /\ iter = 0
    /\ flink_entry = Unset
    /\ blink_entry = Unset
    /\ yielded = << >>
    /\ ncalls = 0
    /\ nreads = 0
    /\ cb_ret = "none"
    /\ walk_result = "none"
    /\ VersionIdle
    /\ KbdIdle
    /\ LocIdle
    /\ KernIdle
    /\ ProcInfoIdle
    /\ SigIdle
    /\ NtIdle
    /\ ViewIdle
    /\ KeyPathIdle
    /\ KernelNewIdle
    /\ SetDownIdle

\* entry of process_address_list_callback up to the first loop test
WalkBegin ==
    /\ walk_pc = "idle"
    /\ list_entry' = list_start
    /\ iter' = 1
    /\ walk_pc' = "read_flink"
    /\ UNCHANGED << mem, unreadable, flink_entry, blink_entry, yielded,
                    ncalls, nreads, cb_ret, walk_result >>
    /\ UNCHANGED << ver_vars, kbd_vars, loc_vars, kern_vars, pi_vars, sig_vars, nt_vars, vo_vars, kp_vars, kn_vars, sd_vars >>

\* let flink_entry = read_addr_arch(list_entry)?
ReadFlink ==
    /\ walk_pc = "read_flink"
    /\ nreads' = nreads + 1
    /\ IF ReadFails(list_entry)
         THEN /\ walk_pc' = "done"
              /\ walk_result' = OnReadFailure(list_entry)
              /\ UNCHANGED flink_entry
         ELSE /\ flink_entry' = read_addr_arch(list_entry)
              /\ walk_pc' = "read_blink"
              /\ UNCHANGED walk_result
    /\ UNCHANGED << mem, unreadable, list_entry, iter, blink_entry, yielded,
                    ncalls, cb_ret >>
    /\ UNCHANGED << ver_vars, kbd_vars, loc_vars, kern_vars, pi_vars, sig_vars, nt_vars, vo_vars, kp_vars, kn_vars, sd_vars >>

\* let blink_entry = read_addr_arch(list_entry + list_blink)?  followed by
\* the test of the break condition
ReadBlink ==
    /\ walk_pc = "read_blink"
    /\ nreads' = nreads + 1
    /\ IF ReadFails(list_entry + list_blink)
         THEN /\ walk_pc' = "done"
              /\ walk_result' = OnReadFailure(list_entry)
              /\ UNCHANGED blink_entry
         ELSE /\ blink_entry' = read_addr_arch(list_entry + list_blink)
              /\ IF StopCondition(flink_entry, blink_entry', list_start, list_entry)
                   THEN /\ walk_pc' = "done"
                        /\ walk_result' = "Ok"
                   ELSE /\ walk_pc' = "call"
                        /\ UNCHANGED walk_result
    /\ UNCHANGED << mem, unreadable, list_entry, iter, flink_entry, yielded,
                    ncalls, cb_ret >>
    /\ UNCHANGED << ver_vars, kbd_vars, loc_vars, kern_vars, pi_vars, sig_vars, nt_vars, vo_vars, kp_vars, kn_vars, sd_vars >>

\* callback.call(eprocess); on true list_entry = flink_entry and the loop
\* goes to its next iteration, if it has one
CallCallback(ret) ==
    /\ walk_pc = "call"
    /\ ncalls' = ncalls + 1
    /\ yielded' = IF Len(yielded) < MaxTrace
                    THEN Append(yielded, EprocessOf(list_entry))
                    ELSE yielded
    /\ cb_ret' = IF ret THEN "true" ELSE "false"
    /\ IF CallbackStops(ret)
         THEN /\ walk_pc' = "done"
              /\ walk_result' = "Ok"
              /\ UNCHANGED << list_entry, iter, flink_entry, blink_entry >>
         ELSE /\ list_entry' = flink_entry
              /\ flink_entry' = Unset
              /\ blink_entry' = Unset
              /\ IF LoopContinues(iter)
                   THEN /\ iter' = iter + 1
                        /\ walk_pc' = "read_flink"
                        /\ UNCHANGED walk_result
                   ELSE /\ walk_pc' = "done"
                        /\ walk_result' = "Ok"
                        /\ UNCHANGED iter
    /\ UNCHANGED << mem, unreadable, nreads >>
    /\ UNCHANGED << ver_vars, kbd_vars, loc_vars, kern_vars, pi_vars, sig_vars, nt_vars, vo_vars, kp_vars, kn_vars, sd_vars >>

NextWalk ==
    \/ WalkBegin
    \/ ReadFlink
    \/ ReadBlink
    \/ \E ret \in BOOLEAN : CallCallback(ret)

SpecWalk == InitWalk /\ [][NextWalk]_vars

\* the walk is a sequential function body: it keeps running until it returns
SpecWalkFair == SpecWalk /\ WF_vars(NextWalk)

(***************************************************************************)
(* Properties of the process list walk.                                    *)
(***************************************************************************)
\* the i-th LIST_ENTRY of the Flink chain that starts at the list head
RECURSIVE ChainAt(_, _)
ChainAt(m, i) ==
    IF i <= 1 THEN list_start
    ELSE LET prev == ChainAt(m, i - 1)
         IN  IF prev \in Entries THEN m[prev] ELSE NULL

\* the Flink chain from the head reaches null, the head or a self-loop
ChainReachesStop(m) ==
    \E i \in 1..NumEntries :
        /\ \A j \in 1..i : ChainAt(m, j) \in Entries
        /\ m[ChainAt(m, i)] \in {NULL, list_start, ChainAt(m, i)}

WalkDone == walk_pc = "done"

\* C1 (safety part): the walk never starts more than MAX_ITER_COUNT
\* iterations, and when the Flink chain reaches null, the head or a
\* self-loop every callback invocation is recorded and no EPROCESS address
\* is passed to the callback twice.
C1_BoundedOnce ==
    /\ iter <= MAX_ITER_COUNT
    /\ ChainReachesStop(mem) =>
          /\ ncalls = Len(yielded)
          /\ \A i, j \in 1..Len(yielded) : yielded[i] = yielded[j] => i = j

\* position of walk_pc in the order the walk passes through within one
\* iteration
PcRank ==
    CASE walk_pc = "idle" -> 0
      [] walk_pc = "read_flink" -> 1
      [] walk_pc = "read_blink" -> 2
      [] walk_pc = "call" -> 3
      [] walk_pc = "done" -> 4

\* (iteration, position), in lexicographic order
WalkRank == iter * 5 + PcRank

\* C1: process_address_list_callback always halts: every step of the walk
\* advances (iteration, position), which is bounded by MAX_ITER_COUNT
\* iterations, and the walk can always take a step until it has returned;
\* for a Flink chain that reaches null, the head or a self-loop it performs
\* at most 65,536 iterations and passes each list entry to the callback at
\* most once.
C1_WalkHalts ==
    /\ []C1_BoundedOnce
    /\ [](~WalkDone => ENABLED NextWalk)
    /\ [][WalkRank' > WalkRank]_vars

\* witness of C1: a circular list of NumEntries entries walked to its end
C1_Witness ==
    /\ WalkDone
    /\ walk_result = "Ok"
    /\ ChainReachesStop(mem)
    /\ \A j \in 1..NumEntries : ChainAt(mem, j) \in Entries
    /\ mem[ChainAt(mem, NumEntries)] = list_start
    /\ ncalls = NumEntries - 1
    /\ iter = NumEntries

\* a callback invocation happens in this step
CallbackInvoked == ncalls' = ncalls + 1

\* C2 (step part): when the callback is invoked for list_entry, Flink and
\* Blink of list_entry have been read in this iteration, neither is null,
\* and Flink is neither the list head nor list_entry itself.
C2_CallGuard ==
    CallbackInvoked =>
        /\ flink_entry = mem[list_entry]
        /\ blink_entry = mem[list_entry + list_blink]
        /\ flink_entry # NULL
        /\ blink_entry # NULL
        /\ flink_entry # list_start
        /\ flink_entry # list_entry
        /\ yielded' # yielded => yielded'[Len(yielded')] = list_entry - eproc_link

\* C2 (consequence): a head whose Flink is itself or null yields zero
\* entries, and the call returns Ok once both head fields have been read.
C2_EmptyList ==
    mem[list_start] \in {NULL, list_start} =>
        /\ ncalls = 0
        /\ (WalkDone /\ unreadable \cap {list_start, list_start + list_blink} = {})
              => walk_result = "Ok"

\* C2: at every step of the walk Flink and Blink of the current entry are
\* read before the callback is invoked, and the callback is not invoked for
\* an entry whose Flink is null, the head or the entry itself or whose Blink
\* is null; a head whose Flink is itself or null yields zero entries and Ok.
C2_TestBeforeCall ==
    /\ [][C2_CallGuard]_vars
    /\ []C2_EmptyList

\* witness of C2: the walk of a head whose Flink is the head itself ended
\* after the two reads of the head without a callback invocation
C2_Witness ==
    /\ WalkDone
    /\ mem[list_start] = list_start
    /\ mem[list_start + list_blink] # NULL
    /\ flink_entry = list_start
    /\ nreads = 2
    /\ ncalls = 0
    /\ walk_result = "Ok"

\* C3 (stop): after the callback has returned false the walk has returned
\* Ok, and no step reads target memory or invokes the callback again.
C3_StopOnFalse ==
    cb_ret = "false" =>
        /\ WalkDone
        /\ walk_result = "Ok"
        /\ nreads' = nreads
        /\ ncalls' = ncalls

\* C3 (continue): when the callback returns true the walk moves to the
\* entry named by Flink and, unless this was iteration MAX_ITER_COUNT,
\* goes on to read it.
C3_ContinueOnTrue ==
    (CallbackInvoked /\ cb_ret' = "true") =>
        /\ list_entry' = mem[list_entry]
        /\ iter < MAX_ITER_COUNT => (walk_pc' = "read_flink" /\ iter' = iter + 1)

\* C3: cancellation of the walk is by the callback's return value: false
\* stops it (no further read, no further invocation, Ok), true continues it
\* at the entry named by Flink.
C3_Cancellation == [][C3_StopOnFalse /\ C3_ContinueOnTrue]_vars

\* witness of C3: the callback accepted one entry, then stopped the walk at
\* the second while the list went on
C3_Witness ==
    /\ WalkDone
    /\ cb_ret = "false"
    /\ ncalls = 2
    /\ nreads = 4
    /\ list_entry = mem[list_start]
    /\ flink_entry \in Entries

\* C4: the callback sees the entries in forward LIST_ENTRY order from the
\* head: the i-th address it receives is the i-th entry of the Flink chain
\* from eprocess_base + eproc_link, minus eproc_link; the first is
\* eprocess_base.
C4_ForwardOrder ==
    /\ \A i \in 1..Len(yielded) : yielded[i] = ChainAt(mem, i) - eproc_link
    /\ Len(yielded) >= 1 => yielded[1] = eprocess_base

\* witness of C4: three entries yielded, the second and third reached by
\* following Flink
C4_Witness ==
    /\ Len(yielded) >= 3
    /\ yielded[1] = eprocess_base
    /\ yielded[2] # yielded[1]
    /\ yielded[3] # yielded[2]

\* a step that issues a read which fails
FailedRead ==
    \/ walk_pc = "read_flink" /\ ReadFails(list_entry)
    \/ walk_pc = "read_blink" /\ ReadFails(list_entry + list_blink)

\* C5 as stated: only a failed read at the head makes the walk return an
\* error; a failed read at a later entry ends it with Ok.
C5_QuietAfterHead == walk_result = "Err" => list_entry = list_start

\* C5 as amended: a failed read of Flink or Blink at any entry, the head or
\* a later one, makes process_address_list_callback return an error; the
\* callback invocations already made stand; the walk returns an error for
\* no other reason.
C5_FailedReadIsError ==
    /\ [][FailedRead =>
            /\ walk_pc' = "done"
            /\ walk_result' = "Err"
            /\ yielded' = yielded
            /\ ncalls' = ncalls]_vars
    /\ [](walk_result = "Err" =>
            \/ ReadFails(list_entry)
            \/ ReadFails(list_entry + list_blink))

\* witness of C5: an error returned at an entry after the head, with an
\* entry already yielded
C5_Witness ==
    /\ WalkDone
    /\ walk_result = "Err"
    /\ list_entry # list_start
    /\ ncalls >= 1
    /\ yielded[1] = eprocess_base

(***************************************************************************)
(* Win32Version: cmp (impl Ord) and eq (impl PartialEq).                   *)
(***************************************************************************)
\* largest upper half, below the build tags, of the sampled build numbers
MaxHigh == 1

\* A u32 build number is kept as << upper 16 bits, lower 16 bits >>: the
\* tagged NtBuildNumber values exceed the integers of the model checker.
U32(hi, lo) == << hi, lo >>

\* the low 16 bits of the sampled nt_build_number values
BuildLows == {0, 7601, 19045, 22621}
\* their upper 16 bits: small values, and the 0xF000 (free build) and 0xC000
\* (checked build) tags of NtBuildNumber
BuildHighs == (0..MaxHigh) \cup {61440, 49152}
Builds == { U32(hi, lo) : hi \in BuildHighs, lo \in BuildLows }
Majors == {6, 10}
Minors == {0, 1}

\* Win32Version::new
Win32Version(major, minor, build) ==
    [nt_major_version |-> major, nt_minor_version |-> minor,
     nt_build_number |-> build]

Versions == { Win32Version(ma, mi, b) : ma \in Majors, mi \in Minors, b \in Builds }

\* Win32Version::build_number: nt_build_number & 0xFFFF
build_number_Raw(v) == v.nt_build_number

build_number(v) == U32(0, v.nt_build_number[2])

\* u32::cmp
U32Cmp(x, y) ==
    IF x[1] # y[1]
      THEN (IF x[1] < y[1] THEN "Less" ELSE "Greater")
      ELSE IF x[2] < y[2] THEN "Less"
      ELSE IF x[2] > y[2] THEN "Greater"
      ELSE "Equal"

\* <Win32Version as Ord>::cmp
VersionCmp_RawBuild(self, other) ==
    IF self.nt_build_number # U32(0, 0) /\ other.nt_build_number # U32(0, 0)
      THEN U32Cmp(self.nt_build_number, other.nt_build_number)
      ELSE IF self.nt_major_version # other.nt_major_version
        THEN U32Cmp(U32(0, self.nt_major_version), U32(0, other.nt_major_version))
        ELSE IF self.nt_minor_version # other.nt_minor_version
          THEN U32Cmp(U32(0, self.nt_minor_version), U32(0, other.nt_minor_version))
          ELSE "Equal"

VersionCmp(self, other) ==
    IF build_number(self) # U32(0, 0) /\ build_number(other) # U32(0, 0)
      THEN U32Cmp(build_number(self), build_number(other))
      ELSE IF self.nt_major_version # other.nt_major_version
        THEN U32Cmp(U32(0, self.nt_major_version), U32(0, other.nt_major_version))
        ELSE IF self.nt_minor_version # other.nt_minor_version
          THEN U32Cmp(U32(0, self.nt_minor_version), U32(0, other.nt_minor_version))
          ELSE "Equal"

\* <Win32Version as PartialEq>::eq
VersionEq(self, other) ==
    IF self.nt_build_number # U32(0, 0) /\ other.nt_build_number # U32(0, 0)
      THEN self.nt_build_number = other.nt_build_number
      ELSE /\ self.nt_major_version = other.nt_major_version
           /\ self.nt_minor_version = other.nt_minor_version

\* two versions to compare, not yet compared
InitVersion ==
    /\ ver_a \in Versions
    /\ ver_b \in Versions
    /\ ver_op = "none"
    /\ ver_out = "none"
    /\ WalkIdle
    /\ KbdIdle
    /\ LocIdle
    /\ KernIdle
    /\ ProcInfoIdle
    /\ SigIdle
    /\ NtIdle
    /\ ViewIdle
    /\ KeyPathIdle
    /\ KernelNewIdle
    /\ SetDownIdle

\* ver_a.cmp(&ver_b)
DoCmp ==
    /\ ver_op = "none"
    /\ ver_op' = "cmp"
    /\ ver_out' = VersionCmp(ver_a, ver_b)
    /\ UNCHANGED << ver_a, ver_b, walk_vars, kbd_vars, loc_vars, kern_vars, pi_vars, sig_vars, nt_vars, vo_vars, kp_vars, kn_vars, sd_vars >>

\* ver_a == ver_b
DoEq ==
    /\ ver_op = "none"
    /\ ver_op' = "eq"
    /\ ver_out' = IF VersionEq(ver_a, ver_b) THEN "true" ELSE "false"
    /\ UNCHANGED << ver_a, ver_b, walk_vars, kbd_vars, loc_vars, kern_vars, pi_vars, sig_vars, nt_vars, vo_vars, kp_vars, kn_vars, sd_vars >>

NextVersion ==
    \/ DoCmp
    \/ DoEq

SpecVersion == InitVersion /\ [][NextVersion]_vars

\* the order of two integers, stated on their difference
OrderOf(x, y) ==
    CASE x - y < 0 -> "Less"
      [] x - y = 0 -> "Equal"
      [] x - y > 0 -> "Greater"

\* the build of v as build_number() reports it: the lower 16 bits
LowBuild(v) == v.nt_build_number[2]

\* the lexicographic order of (major, minor)
MajorMinorOrder(a, b) ==
    IF a.nt_major_version # b.nt_major_version
      THEN OrderOf(a.nt_major_version, b.nt_major_version)
      ELSE OrderOf(a.nt_minor_version, b.nt_minor_version)

\* C6: a.cmp(b) is the order of the 16-bit builds when both are non-zero,
\* whatever major, minor and the upper 16 bits of the raw builds are, and
\* the lexicographic order of (major, minor) otherwise; in particular
\* (10,0,22621).cmp((10,0,4026550885)) = Greater
\* (4026550885 = 61440 * 65536 + 19045).
C6_VersionOrder ==
    /\ ver_op = "cmp" =>
          ver_out =
            IF LowBuild(ver_a) # 0 /\ LowBuild(ver_b) # 0
              THEN OrderOf(LowBuild(ver_a), LowBuild(ver_b))
              ELSE MajorMinorOrder(ver_a, ver_b)
    /\ ( /\ ver_op = "cmp"
         /\ ver_a = Win32Version(10, 0, U32(0, 22621))
         /\ ver_b = Win32Version(10, 0, U32(61440, 19045)) ) => ver_out = "Greater"

\* witness of C6: the comparison of the unit test win32_version_cmp
C6_Witness ==
    /\ ver_op = "cmp"
    /\ ver_a = Win32Version(10, 0, U32(0, 22621))
    /\ ver_b = Win32Version(10, 0, U32(61440, 19045))
    /\ ver_out = "Greater"

\* C7: a == b holds exactly when a.cmp(b) = Equal, and a == b iff b == a.
C7_EqAgreesWithCmp ==
    ver_op = "eq" =>
        /\ (ver_out = "true") <=> (VersionCmp(ver_a, ver_b) = "Equal")
        /\ VersionEq(ver_a, ver_b) <=> VersionEq(ver_b, ver_a)

(***************************************************************************)
(* Win32Keyboard and Win32KeyboardState: the key-state bit math.           *)
(***************************************************************************)
\* how far beyond the accepted range the sampled vk arguments go
VkMargin == 2

\* [u8; 256 * 2 / 8]
KeyStateLen == (256 * 2) \div 8
KeyStateIndex == 0..(KeyStateLen - 1)

\* the i32 arguments passed as vk: the accepted range, its neighbours, and
\* the ends of i32
VkInputs == ((0 - VkMargin)..(256 + VkMargin)) \cup {-2147483647 - 1, 2147483647}

\* the key states the target holds when the keyboard is called: no key
\* down, every bit set, only the down bits, only the other bits, and a state
\* in which the bytes differ from one another
InitialKeyStates ==
    { [i \in KeyStateIndex |-> b] : b \in {0, 255, 85, 170} }
      \cup { [i \in KeyStateIndex |-> (i * 13 + (i \div 8)) % 256] }

\* u8 & u8, u8 | u8, !u8
RECURSIVE BitAnd(_, _)
BitAnd(x, y) ==
    IF x = 0 \/ y = 0 THEN 0
    ELSE (x % 2) * (y % 2) + 2 * BitAnd(x \div 2, y \div 2)

RECURSIVE BitOr(_, _)
BitOr(x, y) ==
    IF x = 0 THEN y
    ELSE IF y = 0 THEN x
    ELSE (IF x % 2 = 1 \/ y % 2 = 1 THEN 1 ELSE 0) + 2 * BitOr(x \div 2, y \div 2)

BitNot(x) == 255 - x

\* (0..=256).contains(&vk)
VkAccepted(vk) == 0 <= vk /\ vk <= 256

\* get_ks_byte!(vk) = vk * 2 / 8
get_ks_byte(vk) == (vk * 2) \div 8

\* get_ks_down_bit!(vk) = 1 << ((vk % 4) * 2), a u8
get_ks_down_bit_NoDouble(vk) == 2 ^ (vk % 4)

get_ks_down_bit(vk) == 2 ^ ((vk % 4) * 2)

\* indexing a [u8; 64] panics when the index is out of bounds
IndexPanics(ks, vk) == get_ks_byte(vk) \notin DOMAIN ks

\* is_key_down!(ks, vk)
is_key_down(ks, vk) ==
    BitAnd(ks[get_ks_byte(vk)], get_ks_down_bit(vk)) # 0

\* set_key_down!(ks, vk, down)
set_key_down_KeepOnlyBit(ks, vk, down) ==
    IF down
      THEN [ks EXCEPT ![get_ks_byte(vk)] = BitOr(@, get_ks_down_bit(vk))]
      ELSE [ks EXCEPT ![get_ks_byte(vk)] = BitAnd(@, get_ks_down_bit(vk))]

set_key_down(ks, vk, down) ==
    IF down
      THEN [ks EXCEPT ![get_ks_byte(vk)] = BitOr(@, get_ks_down_bit(vk))]
      ELSE [ks EXCEPT ![get_ks_byte(vk)] = BitAnd(@, BitNot(get_ks_down_bit(vk)))]

\* virt_mem.read::<[u8; 64]>(key_state_addr) succeeds
KeyStateReadable == key_state_map \in {"rw", "ro"}
\* virt_mem.write(key_state_addr, &buffer) succeeds
KeyStateWritable == key_state_map = "rw"

\* Win32Keyboard::is_down
IsDownOutcome(ks, readable, vk) ==
    IF ~VkAccepted(vk) THEN "false"
    ELSE IF ~readable THEN "false"
    ELSE IF IndexPanics(ks, vk) THEN "panic"
    ELSE IF is_key_down(ks, vk) THEN "true" ELSE "false"

\* Win32KeyboardState::is_down
StateIsDownOutcome(buf, vk) ==
    IF ~VkAccepted(vk) THEN "false"
    ELSE IF IndexPanics(buf, vk) THEN "panic"
    ELSE IF is_key_down(buf, vk) THEN "true" ELSE "false"

\* a Win32Keyboard over a key-state array of the target, before its method
\* is called
InitKbd ==
    /\ key_state \in InitialKeyStates
    /\ key_state_map \in {"rw", "ro", "unmapped"}
    /\ buffer = << >>
    /\ kbd_op = NoKbdOp
    /\ kbd_out = "none"
    /\ WalkIdle
    /\ VersionIdle
    /\ LocIdle
    /\ KernIdle
    /\ ProcInfoIdle
    /\ SigIdle
    /\ NtIdle
    /\ ViewIdle
    /\ KeyPathIdle
    /\ KernelNewIdle
    /\ SetDownIdle

\* Win32Keyboard::is_down(vk)
KbdIsDown(vk) ==
    /\ kbd_op = NoKbdOp
    /\ kbd_op' = [op |-> "is_down", vk |-> vk, down |-> FALSE]
    /\ kbd_out' = IsDownOutcome(key_state, KeyStateReadable, vk)
    /\ UNCHANGED << key_state, key_state_map, buffer, walk_vars, ver_vars, loc_vars, kern_vars, pi_vars, sig_vars, nt_vars, vo_vars, kp_vars, kn_vars, sd_vars >>

\* Win32Keyboard::set_down(vk, down)
KbdSetDown(vk, down) ==
    /\ kbd_op = NoKbdOp
    /\ kbd_op' = [op |-> "set_down", vk |-> vk, down |-> down]
    /\ IF VkAccepted(vk) /\ KeyStateReadable
         THEN IF IndexPanics(key_state, vk)
                THEN /\ kbd_out' = "panic"
                     /\ UNCHANGED key_state
                ELSE /\ kbd_out' = "unit"
                     /\ key_state' = IF KeyStateWritable
                                       THEN set_key_down(key_state, vk, down)
                                       ELSE key_state
         ELSE /\ kbd_out' = "unit"
              /\ UNCHANGED key_state
    /\ UNCHANGED << key_state_map, buffer, walk_vars, ver_vars, loc_vars, kern_vars, pi_vars, sig_vars, nt_vars, vo_vars, kp_vars, kn_vars, sd_vars >>

\* Win32Keyboard::state()
KbdState ==
    /\ kbd_op = NoKbdOp
    /\ kbd_op' = [op |-> "state", vk |-> 0, down |-> FALSE]
    /\ IF KeyStateReadable
         THEN /\ buffer' = key_state
              /\ kbd_out' = "Ok"
         ELSE /\ kbd_out' = "Err"
              /\ UNCHANGED buffer
    /\ UNCHANGED << key_state, key_state_map, walk_vars, ver_vars, loc_vars, kern_vars, pi_vars, sig_vars, nt_vars, vo_vars, kp_vars, kn_vars, sd_vars >>

\* Win32KeyboardState::is_down(vk) on the copy returned by state()
KbdStateIsDown(vk) ==
    /\ kbd_op.op = "state"
    /\ kbd_out = "Ok"
    /\ kbd_op' = [op |-> "state_is_down", vk |-> vk, down |-> FALSE]
    /\ kbd_out' = StateIsDownOutcome(buffer, vk)
    /\ UNCHANGED << key_state, key_state_map, buffer, walk_vars, ver_vars, loc_vars, kern_vars, pi_vars, sig_vars, nt_vars, vo_vars, kp_vars, kn_vars, sd_vars >>

NextKbd ==
    \/ \E vk \in VkInputs : KbdIsDown(vk)
    \/ \E vk \in VkInputs, down \in BOOLEAN : KbdSetDown(vk, down)
    \/ KbdState
    \/ \E vk \in VkInputs : KbdStateIsDown(vk)

SpecKbd == InitKbd /\ [][NextKbd]_vars

(***************************************************************************)
(* Properties of the key-state bit math.                                   *)
(***************************************************************************)
\* bit k of byte b is set
Bit(b, k) == (b \div (2 ^ k)) % 2 = 1

BoolOutcome(b) == IF b THEN "true" ELSE "false"

\* the step is set_down(vk, down) on a key state the target lets read and
\* write
SetDownDone(vk, down) ==
    /\ kbd_op' = [op |-> "set_down", vk |-> vk, down |-> down]
    /\ key_state_map = "rw"

\* C8: for every vk in [0, 256) and every initial key state, when the
\* target read and write succeed, is_down(vk) after set_down(vk, down)
\* is down, and every other bit of the 64 bytes is as before the set_down.
C8_SetDownFrame ==
    [][\A vk \in 0..255 : \A down \in BOOLEAN :
         SetDownDone(vk, down) =>
           /\ IsDownOutcome(key_state', TRUE, vk) = BoolOutcome(down)
           /\ \A i \in KeyStateIndex : \A k \in 0..7 :
                 (i # vk \div 4 \/ k # 2 * (vk % 4)) =>
                   (Bit(key_state'[i], k) <=> Bit(key_state[i], k))]_vars

\* witness of C8: set_down(0x41, true) on a key state with no key down has
\* set bit 2 of byte 16 and nothing else
C8_Witness ==
    /\ kbd_op = [op |-> "set_down", vk |-> 65, down |-> TRUE]
    /\ key_state_map = "rw"
    /\ kbd_out = "unit"
    /\ key_state = [i \in KeyStateIndex |-> IF i = 16 THEN 4 ELSE 0]

\* C9: for every i32 vk the three operations complete without a panic; a
\* vk outside the accepted range yields false on read, and every accepted
\* vk with which the array is indexed addresses a byte inside its 64 bytes.
C9_NeverPanics ==
    /\ kbd_out # "panic"
    /\ (kbd_op.op \in {"is_down", "state_is_down"} /\ ~VkAccepted(kbd_op.vk))
          => kbd_out = "false"
    /\ ( /\ \/ kbd_op.op \in {"is_down", "set_down"} /\ KeyStateReadable
            \/ kbd_op.op = "state_is_down"
         /\ VkAccepted(kbd_op.vk) )
          => get_ks_byte(kbd_op.vk) \in KeyStateIndex

\* the layout of C10 without its example: is_down(vk) is bit 2*(vk mod 4) of
\* byte floor(vk/4); the (byte, bit) pair of a vk is that of no other vk;
\* the bit tested is at an even position
C10_Layout ==
    /\ \A vk \in 0..255 :
          /\ IsDownOutcome(key_state, TRUE, vk)
                = BoolOutcome(Bit(key_state[vk \div 4], 2 * (vk % 4)))
          /\ get_ks_down_bit(vk) \in {1, 4, 16, 64}
    /\ (kbd_op.op = "is_down" /\ kbd_op.vk \in 0..255 /\ KeyStateReadable) =>
          /\ kbd_out = BoolOutcome(Bit(key_state[kbd_op.vk \div 4], 2 * (kbd_op.vk % 4)))
          /\ \A other \in 0..255 :
                other # kbd_op.vk =>
                  << get_ks_byte(other), get_ks_down_bit(other) >>
                    # << get_ks_byte(kbd_op.vk), get_ks_down_bit(kbd_op.vk) >>

\* no step changes a bit at an odd position
C10_OddBitsKept ==
    \A i \in KeyStateIndex : \A k \in {1, 3, 5, 7} :
        Bit(key_state'[i], k) <=> Bit(key_state[i], k)

\* the example of C10 as stated: vk = 0x20 is bit 0 of byte 16
C10_SpaceInByte16 ==
    (kbd_op.op = "is_down" /\ kbd_op.vk = 32 /\ KeyStateReadable) =>
        kbd_out = BoolOutcome(Bit(key_state[16], 0))

\* the example of C10 as amended: vk = 0x20 is bit 0 of byte 8
C10_SpaceInByte8 ==
    /\ get_ks_byte(32) = 8
    /\ get_ks_down_bit(32) = 1
    /\ (kbd_op.op = "is_down" /\ kbd_op.vk = 32 /\ KeyStateReadable) =>
          kbd_out = BoolOutcome(Bit(key_state[8], 0))

\* C10 as stated: the layout, with vk = 0x20 giving byte 16, mask 0x01.
C10_BitLayoutByte16 ==
    /\ [](C10_Layout /\ C10_SpaceInByte16)
    /\ [][C10_OddBitsKept]_vars

\* C10 as amended: for every vk in [0, 256), is_down(vk) is bit 2*(vk mod 4)
\* of byte floor(vk/4) of the 64-byte array (vk = 0x20 gives byte 8, mask
\* 0x01); distinct vk map to distinct (byte, bit) pairs and only even bit
\* positions are ever tested or modified.
C10_BitLayout ==
    /\ [](C10_Layout /\ C10_SpaceInByte8)
    /\ [][C10_OddBitsKept]_vars

\* witness of C10: is_down(0x20) read bit 0 of byte 8, which is set while
\* bit 0 of byte 16 is not
C10_Witness ==
    /\ kbd_op = [op |-> "is_down", vk |-> 32, down |-> FALSE]
    /\ KeyStateReadable
    /\ Bit(key_state[8], 0)
    /\ ~Bit(key_state[16], 0)
    /\ kbd_out = "true"

(***************************************************************************)
(* Win32Keyboard::find_keystate and find_in_user_process: the choice of    *)
(* the proxy process and of the locator's version branch.                  *)
(***************************************************************************)
\* longest process list sampled
MaxProcs == 2

\* the names the filter of find_keystate accepts, as the closure lists them
ProxyNames ==
    << "winlogon.exe", "explorer.exe", "taskhostw.exe", "smartscreen.exe",
       "dwm.exe" >>

\* process names sampled: the accepted ones and one that is not
ProcNames == { ProxyNames[i] : i \in 1..Len(ProxyNames) } \cup {"svchost.exe"}

\* what the target lets find_in_user_process do with one process: "ok", or
\* "gone" (process_info_by_pid or process_info_from_base_info fails), or
\* "unreadable" (process_by_info, a signature search or a pointer read in
\* the process fails)
ProcStates == {"ok", "gone", "unreadable"}

ProcEntries == [name : ProcNames, state : ProcStates]

RECURSIVE SeqsUpTo(_, _)
\* the sequences over S of length at most n
SeqsUpTo(S, n) ==
    IF n = 0
      THEN { << >> }
      ELSE LET shorter == SeqsUpTo(S, n - 1)
           IN shorter \cup { Append(q, x) : q \in { r \in shorter : Len(r) = n - 1 }, x \in S }

\* kernel versions sampled: Windows 7, a free build of Windows 10 22H2 with
\* the 0xF000 tag, the builds around the two thresholds, 24H2, and a
\* version whose build number is unknown
LocVersions ==
    { Win32Version(6, 1, U32(0, 7601)),
      Win32Version(10, 0, U32(61440, 19045)),
      Win32Version(10, 0, U32(0, 22621)),
      Win32Version(10, 0, U32(0, 22631)),
      Win32Version(10, 0, U32(0, 22632)),
      Win32Version(10, 0, U32(0, 26100)),
      Win32Version(10, 0, U32(0, 0)) }

\* kernel module lists sampled
LocModuleSets ==
    { {"win32kbase.sys", "win32k.sys", "WIN32KSGD.SYS"},
      {"win32kbase.sys", "win32k.sys"},
      {"win32k.sys"} }

\* ida_regex![48 8B 05 ? ? ? ? FF C9], as its tokens
Sig24H2 == << "48", "8B", "05", "?", "?", "?", "?", "FF", "C9" >>
\* ida_regex![48 8B 05 ? ? ? ? 48 8B 04 C8], as its tokens
Sig23H2 == << "48", "8B", "05", "?", "?", "?", "?", "48", "8B", "04", "C8" >>

\* <Win32Version as PartialOrd>::ge, from partial_cmp = Some(cmp)
VersionGe(self, other) == VersionCmp(self, other) \in {"Greater", "Equal"}

\* winver >= (10, 0, 22621).into()
is_win11_BuildOnly(winver) == winver.nt_build_number[2] >= 22621

is_win11(winver) == VersionGe(winver, Win32Version(10, 0, U32(0, 22621)))

\* winver >= (10, 0, 22632).into()
at_least_24_h2_As23H2(winver) ==
    VersionGe(winver, Win32Version(10, 0, U32(0, 22621)))

at_least_24_h2(winver) == VersionGe(winver, Win32Version(10, 0, U32(0, 22632)))

\* the tuple (g_session_global_slots_signature, target_kernel_module_name,
\* g_session_global_slots_offset_fallback, key_state_offset_fallback) of the
\* Windows 11 branch: 0x824F0 and 0x3808, or 0x3110 and 0x36a8
SessionGlobalSlots(winver) ==
    IF at_least_24_h2(winver)
      THEN [path |-> "Win11", module |-> "win32k.sys", sig |-> Sig24H2,
            slots_fallback |-> 533744, key_fallback |-> 14344]
      ELSE [path |-> "Win11", module |-> "WIN32KSGD.SYS", sig |-> Sig23H2,
            slots_fallback |-> 12560, key_fallback |-> 13992]

\* the Windows 10 branch: gafAsyncKeyState of win32kbase.sys, by export or
\* by signature
GafSelection ==
    [path |-> "Win10", module |-> "win32kbase.sys", sig |-> << >>,
     slots_fallback |-> 0, key_fallback |-> 0]

\* find_in_user_process(kernel, pid) for the process p: whether it returns
\* Ok, and the branch it took
find_in_user_process(p, winver, modules) ==
    IF p.state = "gone" \/ "win32kbase.sys" \notin modules
      THEN [ok |-> FALSE, sel |-> NoSel]
      ELSE IF is_win11(winver)
        THEN LET sel == SessionGlobalSlots(winver)
             IN [ok |-> sel.module \in modules /\ p.state = "ok", sel |-> sel]
        ELSE [ok |-> p.state = "ok", sel |-> GafSelection]

\* the closure given to filter()
FilterAccepts_OnlyWinlogon(name) == name = "winlogon.exe"

FilterAccepts(name) == \E i \in 1..Len(ProxyNames) : name = ProxyNames[i]

\* a kernel of some version with some modules and some process list, before
\* find_keystate is called
InitLocator ==
    /\ loc_winver \in LocVersions
    /\ loc_modules \in LocModuleSets
    /\ loc_list_ok \in BOOLEAN
    /\ loc_procs \in SeqsUpTo(ProcEntries, MaxProcs)
    /\ ~loc_list_ok => loc_procs = << >>
    /\ loc_pc = "idle"
    /\ loc_i = 0
    /\ loc_tried = << >>
    /\ loc_sel = NoSel
    /\ loc_result = NoLocResult
    /\ WalkIdle
    /\ VersionIdle
    /\ KbdIdle
    /\ KernIdle
    /\ ProcInfoIdle
    /\ SigIdle
    /\ NtIdle
    /\ ViewIdle
    /\ KeyPathIdle
    /\ KernelNewIdle
    /\ SetDownIdle

\* let procs = kernel.process_info_list()?
LocBegin ==
    /\ loc_pc = "idle"
    /\ IF loc_list_ok
         THEN /\ loc_pc' = "iter"
              /\ loc_i' = 1
              /\ UNCHANGED loc_result
         ELSE /\ loc_pc' = "done"
              /\ loc_result' = [status |-> "Err", proc |-> 0]
              /\ UNCHANGED loc_i
    /\ UNCHANGED << loc_winver, loc_modules, loc_list_ok, loc_procs, loc_tried,
                    loc_sel >>
    /\ UNCHANGED << walk_vars, ver_vars, kbd_vars, kern_vars, pi_vars, sig_vars, nt_vars, vo_vars, kp_vars, kn_vars, sd_vars >>

\* one element of procs.iter().filter(..).find_map(..), or its end and the
\* ok_or_else that follows
LocStep ==
    /\ loc_pc = "iter"
    /\ IF loc_i > Len(loc_procs)
         THEN /\ loc_pc' = "done"
              /\ loc_result' = [status |-> "ExportNotFound", proc |-> 0]
              /\ UNCHANGED << loc_i, loc_tried, loc_sel >>
         ELSE IF ~FilterAccepts(loc_procs[loc_i].name)
           THEN /\ loc_i' = loc_i + 1
                /\ UNCHANGED << loc_pc, loc_tried, loc_sel, loc_result >>
           ELSE LET r == find_in_user_process(loc_procs[loc_i], loc_winver,
                                              loc_modules)
                IN /\ loc_tried' = Append(loc_tried, loc_i)
                   /\ loc_sel' = r.sel
                   /\ IF r.ok
                        THEN /\ loc_pc' = "done"
                             /\ loc_result' = [status |-> "Ok", proc |-> loc_i]
                             /\ UNCHANGED loc_i
                        ELSE /\ loc_i' = loc_i + 1
                             /\ UNCHANGED << loc_pc, loc_result >>
    /\ UNCHANGED << loc_winver, loc_modules, loc_list_ok, loc_procs >>
    /\ UNCHANGED << walk_vars, ver_vars, kbd_vars, kern_vars, pi_vars, sig_vars, nt_vars, vo_vars, kp_vars, kn_vars, sd_vars >>

NextLocator ==
    \/ LocBegin
    \/ LocStep

SpecLocator == InitLocator /\ [][NextLocator]_vars

(***************************************************************************)
(* Properties of the keyboard locator.                                     *)
(***************************************************************************)
\* a < b in the order of versions: by the 16-bit builds when both are
\* non-zero, else by (major, minor)
OrderedBefore(a, b) ==
    ( IF LowBuild(a) # 0 /\ LowBuild(b) # 0
        THEN OrderOf(LowBuild(a), LowBuild(b))
        ELSE MajorMinorOrder(a, b) ) = "Less"

\* kernel_winver < (10,0,22621)
RangeWin10(w) == OrderedBefore(w, Win32Version(10, 0, U32(0, 22621)))
\* (10,0,22621) <= kernel_winver < (10,0,22632)
Range23H2(w) ==
    /\ ~OrderedBefore(w, Win32Version(10, 0, U32(0, 22621)))
    /\ OrderedBefore(w, Win32Version(10, 0, U32(0, 22632)))
\* kernel_winver >= (10,0,22632)
Range24H2(w) == ~OrderedBefore(w, Win32Version(10, 0, U32(0, 22632)))

\* C11: every kernel version lies in exactly one of the three ranges, and
\* whenever find_in_user_process has taken a branch it is the one of the
\* range: below (10,0,22621) the Windows 10 path; from (10,0,22621) and below
\* (10,0,22632) the module win32ksgd.sys (looked up as WIN32KSGD.SYS) with
\* the fallbacks (0x3110, 0x36A8); from (10,0,22632), for instance
\* (10,0,26100), the module win32k.sys with the pattern
\* 48 8B 05 ? ? ? ? FF C9 and the fallbacks (0x824F0, 0x3808).
C11_VersionBranches ==
    /\ \/ RangeWin10(loc_winver) /\ ~Range23H2(loc_winver) /\ ~Range24H2(loc_winver)
       \/ ~RangeWin10(loc_winver) /\ Range23H2(loc_winver) /\ ~Range24H2(loc_winver)
       \/ ~RangeWin10(loc_winver) /\ ~Range23H2(loc_winver) /\ Range24H2(loc_winver)
       \/ loc_winver = NoVersion
    /\ loc_sel # NoSel =>
         /\ RangeWin10(loc_winver) => loc_sel.path = "Win10"
         /\ Range23H2(loc_winver) =>
               /\ loc_sel.path = "Win11"
               /\ loc_sel.module = "WIN32KSGD.SYS"
               /\ loc_sel.sig = << "48", "8B", "05", "?", "?", "?", "?",
                                   "48", "8B", "04", "C8" >>
               /\ loc_sel.slots_fallback = 3 * 4096 + 1 * 256 + 1 * 16
               /\ loc_sel.key_fallback = 3 * 4096 + 6 * 256 + 10 * 16 + 8
         /\ Range24H2(loc_winver) =>
               /\ loc_sel.path = "Win11"
               /\ loc_sel.module = "win32k.sys"
               /\ loc_sel.sig = << "48", "8B", "05", "?", "?", "?", "?",
                                   "FF", "C9" >>
               /\ loc_sel.slots_fallback =
                     8 * 65536 + 2 * 4096 + 4 * 256 + 15 * 16
               /\ loc_sel.key_fallback = 3 * 4096 + 8 * 256 + 8
    /\ ( loc_sel # NoSel /\ loc_winver = Win32Version(10, 0, U32(0, 26100)) )
         => loc_sel.module = "win32k.sys"

\* witness of C11: on (10,0,26100) the locator has succeeded through
\* win32k.sys
C11_Witness ==
    /\ loc_winver = Win32Version(10, 0, U32(0, 26100))
    /\ loc_result.status = "Ok"
    /\ loc_sel.module = "win32k.sys"
    /\ loc_sel.slots_fallback = 533744

\* the position of a name in the list winlogon.exe, explorer.exe,
\* taskhostw.exe, smartscreen.exe, dwm.exe (0 for any other name)
NameRank(name) ==
    IF \E i \in 1..Len(ProxyNames) : ProxyNames[i] = name
      THEN CHOOSE i \in 1..Len(ProxyNames) : ProxyNames[i] = name
      ELSE 0

\* the processes of the list that bear one of the five names
Candidates == { i \in 1..Len(loc_procs) : NameRank(loc_procs[i].name) > 0 }

\* the candidates for which the locator succeeds
Succeeding ==
    { i \in Candidates :
        find_in_user_process(loc_procs[i], loc_winver, loc_modules).ok }

\* find_keystate has returned, having obtained the process list
LocDone == loc_pc = "done" /\ loc_list_ok

MaxKernelCalls == 2

\* the page size given to as_page_aligned
PageSize == 4096

\* DTBs a start block hands over: 0x1AA000 and 0x1AB000
BootDtbs == {1744896, 1748992}

\* what the read at eprocess_base + kproc_dtb can give: an error, null, a
\* value below one page (0x123), a page-aligned value (0x1AD000) and the
\* same with low bits set (0x1AD002)
EprocDtbWords == {ReadErr} \cup { ReadOk(v) : v \in {0, 291, 1757184, 1757186} }

\* values of PsLoadedModuleList in the target
ListHeads == {20480, 24576}

\* the steps of kernel_modules() that can fail
KernelModulesSteps ==
    {"read_raw", "from_bytes", "export_missing", "export_forward", "read_addr",
     "with_base"}

\* what the target can answer: the step that fails, if any, and the pointer
\* stored at PsLoadedModuleList
Targets == [fails : {"none"} \cup KernelModulesSteps, head : ListHeads]

\* Address::as_page_aligned
as_page_aligned_Identity(a, page_size) == a

as_page_aligned(a, page_size) == a - (a % page_size)

\* Address::non_null
non_null(a) == IF a = NULL THEN None ELSE Some(a)

\* the value of `.ok().map(|a| a.as_page_aligned(4096).non_null())`,
\* flattened as the `if let Some(Some(dtb))` does
FixedDtb(word) ==
    IF word.ok THEN non_null(as_page_aligned(word.val, PageSize)) ELSE None

\* the target reads kernel_modules() has issued when it stops at a step
ReadsUntil(step) ==
    IF step \in {"read_raw", "from_bytes", "export_missing", "export_forward"}
      THEN 1 ELSE 2

\* kernel_modules() on a kernel with the given memo: the memo it leaves and
\* what it returns
KernelModulesCall_NoStore(memo, tgt) ==
    IF memo.some
      THEN [memo |-> memo,
            out |-> [op |-> "kernel_modules", status |-> "Ok",
                     val |-> memo.val, reads |-> 0]]
      ELSE IF tgt.fails = "none"
        THEN [memo |-> memo,
              out |-> [op |-> "kernel_modules", status |-> "Ok",
                       val |-> tgt.head, reads |-> ReadsUntil("none")]]
        ELSE [memo |-> memo,
              out |-> [op |-> "kernel_modules", status |-> "Err",
                       val |-> 0, reads |-> ReadsUntil(tgt.fails)]]

KernelModulesCall(memo, tgt) ==
    IF memo.some
      THEN [memo |-> memo,
            out |-> [op |-> "kernel_modules", status |-> "Ok",
                     val |-> memo.val, reads |-> 0]]
      ELSE IF tgt.fails = "none"
        THEN [memo |-> Some(tgt.head),
              out |-> [op |-> "kernel_modules", status |-> "Ok",
                       val |-> tgt.head, reads |-> ReadsUntil("none")]]
        ELSE [memo |-> None,
              out |-> [op |-> "kernel_modules", status |-> "Err",
                       val |-> 0, reads |-> ReadsUntil(tgt.fails)]]

\* the arguments of Win32Kernel::new and the target, before the call; the
\* translator starts on kernel_info.dtb
InitKernel ==
    /\ kernel_pc = "raw"
    /\ kernel_info_dtb \in BootDtbs
    /\ eproc_dtb_word \in EprocDtbWords
    /\ vat_dtb = kernel_info_dtb
    /\ sysproc_dtb = 0
    /\ kernel_modules = None
    /\ target \in Targets
    /\ kernel_calls = 0
    /\ kernel_out = NoKernelOut
    /\ WalkIdle
    /\ VersionIdle
    /\ KbdIdle
    /\ LocIdle
    /\ ProcInfoIdle
    /\ SigIdle
    /\ NtIdle
    /\ ViewIdle
    /\ KeyPathIdle
    /\ KernelNewIdle
    /\ SetDownIdle

\* Win32Kernel::new, from the read of the first process's DTB on
KernelNew ==
    /\ kernel_pc = "raw"
    /\ kernel_pc' = "ready"
    /\ LET dtb == FixedDtb(eproc_dtb_word)
       IN IF dtb.some
            THEN /\ vat_dtb' = dtb.val
                 /\ sysproc_dtb' = dtb.val
            ELSE /\ UNCHANGED vat_dtb
                 /\ sysproc_dtb' = kernel_info_dtb
    /\ kernel_out' = [op |-> "new", status |-> "Ok", val |-> 0, reads |-> 1]
    /\ UNCHANGED << kernel_info_dtb, eproc_dtb_word, kernel_modules, target,
                    kernel_calls >>
    /\ UNCHANGED << walk_vars, ver_vars, kbd_vars, loc_vars, pi_vars, sig_vars, nt_vars, vo_vars, kp_vars, kn_vars, sd_vars >>

\* Win32Kernel::kernel_modules
KernelModules ==
    /\ kernel_pc = "ready"
    /\ kernel_calls < MaxKernelCalls
    /\ kernel_calls' = kernel_calls + 1
    /\ LET r == KernelModulesCall(kernel_modules, target)
       IN /\ kernel_modules' = r.memo
          /\ kernel_out' = r.out
    /\ UNCHANGED << kernel_pc, kernel_info_dtb, eproc_dtb_word, vat_dtb,
                    sysproc_dtb, target >>
    /\ UNCHANGED << walk_vars, ver_vars, kbd_vars, loc_vars, pi_vars, sig_vars, nt_vars, vo_vars, kp_vars, kn_vars, sd_vars >>

\* a read of kernel memory through the kernel's MemoryView, failing where
\* the target does not answer
KernelRead ==
    /\ kernel_pc = "ready"
    /\ kernel_out' = [op |-> "read",
                      status |-> IF target.fails \in {"read_raw", "read_addr"}
                                   THEN "Err" ELSE "Ok",
                      val |-> 0, reads |-> 1]
    /\ UNCHANGED << kernel_pc, kernel_info_dtb, eproc_dtb_word, vat_dtb,
                    sysproc_dtb, kernel_modules, target, kernel_calls >>
    /\ UNCHANGED << walk_vars, ver_vars, kbd_vars, loc_vars, pi_vars, sig_vars, nt_vars, vo_vars, kp_vars, kn_vars, sd_vars >>

\* the target changes between two operations
TargetChanges ==
    /\ kernel_pc = "ready"
    /\ target' \in Targets \ {target}
    /\ UNCHANGED << kernel_pc, kernel_info_dtb, eproc_dtb_word, vat_dtb,
                    sysproc_dtb, kernel_modules, kernel_calls, kernel_out >>
    /\ UNCHANGED << walk_vars, ver_vars, kbd_vars, loc_vars, pi_vars, sig_vars, nt_vars, vo_vars, kp_vars, kn_vars, sd_vars >>

NextKernel ==
    \/ KernelNew
    \/ KernelModules
    \/ KernelRead
    \/ TargetChanges

SpecKernel == InitKernel /\ [][NextKernel]_vars

(***************************************************************************)
(* Properties of the kernel object.                                        *)
(***************************************************************************)
\* a is a multiple of 4 KiB
PageAligned(a) == a % 4096 = 0

\* C13 as stated: after new, sysproc_dtb is non-null and 4 KiB-aligned, and
\* it is the page-aligned DTB read at eprocess_base + kproc_dtb, which has
\* replaced the bootstrap DTB.
C13_DtbReplaced ==
    kernel_pc = "ready" =>
        /\ sysproc_dtb # NULL
        /\ PageAligned(sysproc_dtb)
        /\ eproc_dtb_word.ok
        /\ sysproc_dtb = (eproc_dtb_word.val \div 4096) * 4096
        /\ vat_dtb = sysproc_dtb

\* C13, amended: after new, if the read at eprocess_base + kproc_dtb
\* succeeded and its value rounded down to 4 KiB is non-null, sysproc_dtb
\* and the translator's DTB are that value, non-null and 4 KiB-aligned;
\* if the read failed or the rounded value is null, both are still the
\* bootstrap DTB.
C13_DtbReplacedOrKept ==
    kernel_pc = "ready" =>
        IF eproc_dtb_word.ok /\ (eproc_dtb_word.val \div 4096) * 4096 # NULL
          THEN /\ sysproc_dtb = (eproc_dtb_word.val \div 4096) * 4096
               /\ sysproc_dtb # NULL
               /\ PageAligned(sysproc_dtb)
               /\ vat_dtb = sysproc_dtb
          ELSE /\ sysproc_dtb = kernel_info_dtb
               /\ vat_dtb = kernel_info_dtb

\* witness of C13: the read failed and new kept the bootstrap DTB
C13_Witness ==
    /\ kernel_pc = "ready"
    /\ ~eproc_dtb_word.ok
    /\ sysproc_dtb = kernel_info_dtb
    /\ sysproc_dtb # NULL

\* a step is a kernel_modules() call
IsKernelModulesCall == kernel_calls' = kernel_calls + 1

\* C14: once the memo is set nothing changes it, and a kernel_modules() call
\* returns its value without a target read, whatever the target has become
\* and whatever reads failed since; a call on an unset memo reads the
\* target; if it succeeds it sets the memo to the value it returns, and if
\* it fails the memo stays unset.
C14_Memoized ==
    [][ /\ kernel_modules.some => kernel_modules' = kernel_modules
        /\ IsKernelModulesCall =>
              /\ kernel_modules.some =>
                    /\ kernel_out'.status = "Ok"
                    /\ kernel_out'.val = kernel_modules.val
                    /\ kernel_out'.reads = 0
              /\ ~kernel_modules.some =>
                    /\ kernel_out'.reads > 0
                    /\ kernel_out'.status = "Ok" =>
                          kernel_modules' = Some(kernel_out'.val)
                    /\ kernel_out'.status = "Err" => kernel_modules' = None
        /\ ~IsKernelModulesCall => kernel_modules' = kernel_modules
      ]_vars

\* witness of C14: a second call answered from the memo although the target
\* now fails to read and holds another list head
C14_Witness ==
    /\ kernel_calls = 2
    /\ kernel_modules.some
    /\ kernel_out = [op |-> "kernel_modules", status |-> "Ok",
                     val |-> kernel_modules.val, reads |-> 0]
    /\ target.fails = "read_raw"
    /\ target.head # kernel_modules.val

(***************************************************************************)
(* Process information: process_info_base_by_address,                      *)
(* process_info_from_base_info, process_info_fill and                      *)
(* process_info_by_address.                                                *)
(***************************************************************************)
\* ArchitectureIdent values sampled: X86(32, _), X86(64, _) and AArch64(_)
Archs == {"x86", "x64", "aarch64"}

\* ArchitectureObj::bits
bits(arch) == IF arch = "x86" THEN 32 ELSE 64

\* kernel versions sampled: XP, 7, 8, 10, and 8 without a build number
ProcInfoVersions ==
    { Win32Version(5, 1, U32(0, 2600)),
      Win32Version(6, 1, U32(0, 7601)),
      Win32Version(6, 2, U32(0, 9200)),
      Win32Version(10, 0, U32(0, 19045)),
      Win32Version(6, 2, U32(0, 0)) }

\* offsets.eproc_wow64(): absent, or 0x428
Wow64Offsets == {0, 1064}

\* the pointers a process can hold: each null or one non-null value
ProcMems ==
    [wow64 : {0, 172032}, peb : {0, 180224}, teb : {0, 196608},
     peb_wow64 : {0, 200704}]

\* the target accesses of the three functions, by the name of what they
\* read; "process_by_info" is the second process_info_from_base_info, made
\* by process_info_fill, and "module_list" its module_list_callback
ProcInfoSteps ==
    {"dtb", "pid", "exit_status", "name", "wow64", "section_base",
     "thread_list", "peb", "teb", "vad_root", "peb_wow64",
     "module_info_native", "module_info_wow64", "process_by_info",
     "module_list", "process_params", "image_path_name", "command_line"}

\* the strings of a process whose ProcessParameters are readable
ImagePathName == "C:\\Windows\\explorer.exe"
CommandLine == "explorer.exe /factory"

RECURSIVE RunSteps(_, _, _, _)
\* the steps made of a list of target accesses when the access `fail` fails:
\* a failing step of `fatal` ends the list with an error
RunSteps(steps, fatal, fail, done) ==
    IF steps = << >>
      THEN [ok |-> TRUE, reads |-> done]
      ELSE IF Head(steps) = fail /\ fail \in fatal
        THEN [ok |-> FALSE, reads |-> done \cup {fail}]
        ELSE RunSteps(Tail(steps), fatal, fail, done \cup {Head(steps)})

\* the wow64 pointer as both functions obtain it
Wow64Pointer(offs, pmem) == IF offs = 0 THEN NULL ELSE pmem.wow64

\* the match on ArchitectureObj::from(sys_arch).bits()
ProcArch_AlwaysSys(sys_arch, wow64) == sys_arch

ProcArch(sys_arch, wow64) ==
    IF bits(sys_arch) = 64
      THEN IF wow64 = NULL THEN sys_arch ELSE "x86"
      ELSE sys_arch

\* process_info_base_by_address
process_info_base_by_address(arch, offs, pmem, fail) ==
    LET steps == << "dtb", "pid", "exit_status", "name" >> \o
                 (IF offs = 0 THEN << >> ELSE << "wow64" >>)
        run == RunSteps(steps, {"dtb", "pid", "name", "wow64"}, fail, {})
        wow64 == Wow64Pointer(offs, pmem)
    IN [reads |-> run.reads,
        info |-> IF run.ok
                   THEN [NoProcInfo EXCEPT !.status = "Ok", !.sys_arch = arch,
                                           !.proc_arch = ProcArch(arch, wow64)]
                   ELSE [NoProcInfo EXCEPT !.status = "Err"]]

\* self.kernel_info.kernel_winver >= (6, 2).into()
TebIsRead_Always(winver) == TRUE

TebIsRead(winver) == VersionGe(winver, Win32Version(6, 2, U32(0, 0)))

\* the `if let Some(teb) = teb_wow64` block: the pointer read through
\* proc_reader at teb + teb_peb_x86, `.non_null()`
PebWow64_Unguarded(teb_wow64, pmem) == non_null(pmem.peb_wow64)

PebWow64(teb_wow64, pmem) ==
    IF teb_wow64.some THEN non_null(pmem.peb_wow64) ELSE None

\* process_info_from_base_info
process_info_from_base_info(base_info, winver, offs, pmem, fail) ==
    LET read_teb == TebIsRead(winver)
        teb == IF read_teb /\ pmem.teb # NULL THEN Some(pmem.teb) ELSE None
        teb_wow64 ==
            IF teb.some /\ base_info.proc_arch # base_info.sys_arch
              THEN Some(pmem.teb + 8192) ELSE None
        peb_native == non_null(pmem.peb)
        peb_wow64 == PebWow64(teb_wow64, pmem)
        steps == << "section_base", "thread_list", "peb" >> \o
                 (IF offs = 0 THEN << >> ELSE << "wow64" >>) \o
                 (IF read_teb THEN << "teb" >> ELSE << >>) \o
                 << "vad_root" >> \o
                 (IF teb_wow64.some THEN << "peb_wow64" >> ELSE << >>) \o
                 (IF peb_native.some THEN << "module_info_native" >> ELSE << >>) \o
                 (IF peb_wow64.some THEN << "module_info_wow64" >> ELSE << >>)
        run == RunSteps(steps, ProcInfoSteps, fail, {})
    IN [reads |-> run.reads,
        info |-> IF run.ok
                   THEN [base_info EXCEPT !.wow64 = Wow64Pointer(offs, pmem),
                                          !.teb = teb, !.teb_wow64 = teb_wow64,
                                          !.peb_native = peb_native,
                                          !.peb_wow64 = peb_wow64,
                                          !.module_info_native = peb_native,
                                          !.module_info_wow64 = peb_wow64]
                   ELSE [NoProcInfo EXCEPT !.status = "Err"]]

\* Win32ProcessInfo::peb
InfoPeb(info) == IF info.peb_wow64.some THEN info.peb_wow64 ELSE info.peb_native

\* process_info_fill; its process_by_info repeats the accesses of
\* process_info_from_base_info
process_info_fill(info, winver, offs, pmem, fail) ==
    LET again == process_info_from_base_info(info, winver, offs, pmem,
                    IF fail = "process_by_info" THEN "section_base" ELSE fail)
        steps == << "module_list" >> \o
                 (IF InfoPeb(info).some
                    THEN << "process_params" >> \o
                         (IF fail = "process_params"
                            THEN << >>
                            ELSE << "image_path_name", "command_line" >>)
                    ELSE << >>)
        run == RunSteps(steps, {"module_list"}, fail, again.reads)
        params == InfoPeb(info).some /\ fail # "process_params"
    IN IF again.info.status = "Err"
         THEN [reads |-> again.reads,
               info |-> [NoProcInfo EXCEPT !.status = "Err"]]
         ELSE [reads |-> run.reads,
               info |-> IF run.ok
                          THEN [info EXCEPT
                                  !.path = IF params /\ fail # "image_path_name"
                                             THEN ImagePathName ELSE "",
                                  !.command_line =
                                      IF params /\ fail # "command_line"
                                        THEN CommandLine ELSE ""]
                          ELSE [NoProcInfo EXCEPT !.status = "Err"]]

\* the ProcessInfo part of a Win32ProcessInfo (.base_info)
BaseInfoOf(info) ==
    [info EXCEPT !.wow64 = 0, !.teb = None, !.teb_wow64 = None,
                 !.peb_native = None, !.peb_wow64 = None,
                 !.module_info_native = None, !.module_info_wow64 = None]

\* process_info_by_address
process_info_by_address(arch, winver, offs, pmem, fail) ==
    LET base == process_info_base_by_address(arch, offs, pmem, fail)
        ext == process_info_from_base_info(base.info, winver, offs, pmem, fail)
        fill == process_info_fill(ext.info, winver, offs, pmem, fail)
    IN IF base.info.status = "Err"
         THEN base
         ELSE IF ext.info.status = "Ok"
           THEN [reads |-> base.reads \cup ext.reads \cup fill.reads,
                 info |-> BaseInfoOf(fill.info)]
           ELSE [reads |-> base.reads \cup ext.reads, info |-> base.info]

\* a kernel and the EPROCESS of one process, before a function is called
InitProcInfo ==
    /\ pi_arch \in Archs
    /\ pi_winver \in ProcInfoVersions
    /\ pi_wow64_offs \in Wow64Offsets
    /\ pi_mem \in ProcMems
    /\ pi_fail \in {"none"} \cup ProcInfoSteps
    /\ pi_op = "none"
    /\ pi_reads = {}
    /\ pi_out = NoProcInfo
    /\ WalkIdle
    /\ VersionIdle
    /\ KbdIdle
    /\ LocIdle
    /\ KernIdle
    /\ SigIdle
    /\ NtIdle
    /\ ViewIdle
    /\ KeyPathIdle
    /\ KernelNewIdle
    /\ SetDownIdle

\* kernel.process_info_base_by_address(address)
BaseByAddress ==
    /\ pi_op = "none"
    /\ pi_op' = "process_info_base_by_address"
    /\ LET r == process_info_base_by_address(pi_arch, pi_wow64_offs, pi_mem,
                                             pi_fail)
       IN /\ pi_reads' = r.reads
          /\ pi_out' = r.info
    /\ UNCHANGED << pi_arch, pi_winver, pi_wow64_offs, pi_mem, pi_fail >>
    /\ UNCHANGED << walk_vars, ver_vars, kbd_vars, loc_vars, kern_vars, sig_vars, nt_vars, vo_vars, kp_vars, kn_vars, sd_vars >>

\* kernel.process_info_from_base_info(base_info), for a base_info of the
\* kernel's architecture and some process architecture
FromBaseInfo(proc_arch) ==
    /\ pi_op = "none"
    /\ pi_op' = "process_info_from_base_info"
    /\ LET base_info == [NoProcInfo EXCEPT !.status = "Ok",
                                           !.sys_arch = pi_arch,
                                           !.proc_arch = proc_arch]
           r == process_info_from_base_info(base_info, pi_winver,
                                            pi_wow64_offs, pi_mem, pi_fail)
       IN /\ pi_reads' = r.reads
          /\ pi_out' = r.info
    /\ UNCHANGED << pi_arch, pi_winver, pi_wow64_offs, pi_mem, pi_fail >>
    /\ UNCHANGED << walk_vars, ver_vars, kbd_vars, loc_vars, kern_vars, sig_vars, nt_vars, vo_vars, kp_vars, kn_vars, sd_vars >>

\* kernel.process_info_by_address(address)
ByAddress ==
    /\ pi_op = "none"
    /\ pi_op' = "process_info_by_address"
    /\ LET r == process_info_by_address(pi_arch, pi_winver, pi_wow64_offs,
                                        pi_mem, pi_fail)
       IN /\ pi_reads' = r.reads
          /\ pi_out' = r.info
    /\ UNCHANGED << pi_arch, pi_winver, pi_wow64_offs, pi_mem, pi_fail >>
    /\ UNCHANGED << walk_vars, ver_vars, kbd_vars, loc_vars, kern_vars, sig_vars, nt_vars, vo_vars, kp_vars, kn_vars, sd_vars >>

NextProcInfo ==
    \/ BaseByAddress
    \/ \E proc_arch \in Archs : FromBaseInfo(proc_arch)
    \/ ByAddress

SpecProcInfo == InitProcInfo /\ [][NextProcInfo]_vars

(***************************************************************************)
(* Properties of the process information.                                  *)
(***************************************************************************)
\* the base fields (dtb, pid, name, wow64) are readable
BaseFieldsReadable ==
    /\ pi_fail \notin {"dtb", "pid", "name"}
    /\ pi_fail = "wow64" => pi_wow64_offs = 0

\* the accesses made after the base fields: extended-info construction,
\* module-list walk, ProcessParameters, ImagePathName, CommandLine
EnrichmentSteps == ProcInfoSteps \ {"dtb", "pid", "exit_status", "name", "wow64"}

\* the process has no PEB
PebMissing ==
    /\ pi_mem.peb = NULL
    /\ ~( /\ pi_out.proc_arch # pi_out.sys_arch
          /\ "peb_wow64" \in pi_reads
          /\ pi_mem.peb_wow64 # NULL )

\* C15 as stated: whenever the base fields are readable,
\* process_info_by_address returns Ok, and if the PEB is missing or an
\* access made during enrichment fails, path and command_line are empty.
C15_EnrichmentNeverFatal ==
    (pi_op = "process_info_by_address" /\ BaseFieldsReadable) =>
        /\ pi_out.status = "Ok"
        /\ (PebMissing \/ (pi_fail \in EnrichmentSteps /\ pi_fail \in pi_reads))
              => (pi_out.path = "" /\ pi_out.command_line = "")

\* kernel_winver < (6,2), in the order of versions
BeforeWin8(w) == OrderedBefore(w, Win32Version(6, 2, U32(0, 0)))

\* C16: process_info_from_base_info on a kernel below (6,2) does not read
\* kthread.teb and returns teb = None; from (6,2) on it reads it, and in
\* what it returns teb is Some (of the value read) exactly when that value
\* is non-null, and teb_wow64 is Some, of teb + 0x2000, exactly when in
\* addition proc_arch differs from sys_arch.
C16_VersionGatedTeb ==
    pi_op = "process_info_from_base_info" =>
        /\ BeforeWin8(pi_winver) => "teb" \notin pi_reads
        /\ (pi_out.status = "Ok" /\ BeforeWin8(pi_winver)) =>
              (pi_out.teb = None /\ pi_out.teb_wow64 = None)
        /\ (pi_out.status = "Ok" /\ ~BeforeWin8(pi_winver)) =>
              /\ "teb" \in pi_reads
              /\ pi_out.teb.some <=> pi_mem.teb # NULL
              /\ pi_out.teb.some => pi_out.teb.val = pi_mem.teb
              /\ pi_out.teb_wow64.some <=>
                    (pi_mem.teb # NULL /\ pi_out.proc_arch # pi_out.sys_arch)
              /\ pi_out.teb_wow64.some =>
                    pi_out.teb_wow64.val = pi_mem.teb + 2 * 4096

\* witness of C16: a WOW64 process on Windows 10 with its two TEBs
C16_Witness ==
    /\ pi_op = "process_info_from_base_info"
    /\ pi_winver = Win32Version(10, 0, U32(0, 19045))
    /\ pi_out.status = "Ok"
    /\ pi_out.sys_arch = "x64"
    /\ pi_out.proc_arch = "x86"
    /\ pi_out.teb = Some(196608)
    /\ pi_out.teb_wow64 = Some(204800)

\* C17: in what process_info_base_by_address returns, sys_arch is the
\* kernel's architecture; proc_arch is 32-bit x86 on a 64-bit kernel when
\* the wow64 pointer is non-null and sys_arch otherwise, and sys_arch on a
\* 32-bit kernel; with eproc_wow64 = 0 the pointer counts as null and is
\* not read.
C17_ProcArch ==
    pi_op = "process_info_base_by_address" =>
        /\ pi_wow64_offs = 0 => "wow64" \notin pi_reads
        /\ pi_out.status = "Ok" =>
              /\ pi_out.sys_arch = pi_arch
              /\ pi_wow64_offs # 0 => "wow64" \in pi_reads
              /\ pi_out.proc_arch =
                    CASE pi_arch = "x86" -> pi_arch
                      [] pi_arch # "x86" /\ pi_wow64_offs = 0 -> pi_arch
                      [] pi_arch # "x86" /\ pi_wow64_offs # 0 /\ pi_mem.wow64 = 0
                            -> pi_arch
                      [] pi_arch # "x86" /\ pi_wow64_offs # 0 /\ pi_mem.wow64 # 0
                            -> "x86"

\* witness of C17: a WOW64 process on a 64-bit kernel
C17_Witness ==
    /\ pi_op = "process_info_base_by_address"
    /\ pi_arch = "x64"
    /\ pi_wow64_offs # 0
    /\ pi_mem.wow64 # NULL
    /\ pi_out.status = "Ok"
    /\ pi_out.sys_arch = "x64"
    /\ pi_out.proc_arch = "x86"

(***************************************************************************)
(* ida_regex! and the signature searches of the keyboard locator.          *)
(***************************************************************************)
\* most filler bytes before the first signature instance in a sampled buffer
MaxPad == 2
\* longest buffer of the exhaustively sampled ones
MaxShortBuf == 5

\* the example of the ida_regex! documentation
DocSig == << "4C", "8B", "?", "?", "?", "?", "3C", "9F" >>
\* a short pattern with two wildcards between two bytes
ShortSig == << "4C", "?", "?", "9F" >>
\* ida_regex![48 8B 05 ? ? ? ? 48 89 81 ? ? 00 00 48 8B 8F] of find_gaf_sig
GafSig ==
    << "48", "8B", "05", "?", "?", "?", "?", "48", "89", "81", "?", "?",
       "00", "00", "48", "8B", "8F" >>
\* ida_regex![b9 00 80 ff ff ? 22 B4 ? ? ? ? ? 41], the key state offset
KeyStateSig ==
    << "b9", "00", "80", "ff", "ff", "?", "22", "B4", "?", "?", "?", "?",
       "?", "41" >>

SigPatterns == {DocSig, ShortSig, Sig24H2, Sig23H2, GafSig, KeyStateSig}

\* ida_regex_part!
ida_regex_part_Dot(token) ==
    IF token = "?" THEN "." ELSE "\\x" \o token

ida_regex_part(token) ==
    IF token = "?" THEN "(?s:.)" ELSE "\\x" \o token

RECURSIVE concat(_)
\* concat!
concat(strs) == IF strs = << >> THEN "" ELSE Head(strs) \o concat(Tail(strs))

\* the pieces ida_regex! makes of its tokens, in order
RegexParts(tokens) == [i \in 1..Len(tokens) |-> ida_regex_part(tokens[i])]

\* ida_regex!
ida_regex(tokens) == concat(<< "(?-u)" >> \o RegexParts(tokens))

\* the digits of \xHH, in upper and in lower case
HexUpper ==
    << "0", "1", "2", "3", "4", "5", "6", "7", "8", "9", "A", "B", "C", "D",
       "E", "F" >>
HexLower ==
    << "0", "1", "2", "3", "4", "5", "6", "7", "8", "9", "a", "b", "c", "d",
       "e", "f" >>

\* the two-digit tokens that stand for the byte b
HexTokens(b) ==
    { hi[(b \div 16) + 1] \o lo[(b % 16) + 1] :
        hi \in {HexUpper, HexLower}, lo \in {HexUpper, HexLower} }

\* the byte of every two-digit hex token
TokenTable ==
    LET pairs == UNION { { << t, b >> : t \in HexTokens(b) } : b \in 0..255 }
    IN [ t \in { p[1] : p \in pairs } |->
           (CHOOSE p \in pairs : p[1] = t)[2] ]

\* the byte of every escape \xHH
EscapeTable ==
    LET pairs == { << "\\x" \o t, TokenTable[t] >> : t \in DOMAIN TokenTable }
    IN [ e \in { p[1] : p \in pairs } |->
           (CHOOSE p \in pairs : p[1] = e)[2] ]

\* whether a piece of the regex matches the byte b (bytes mode, (?-u)):
\* \xHH matches that byte, (?s:.) any byte, and . any byte but \n
PartMatches(part, b) ==
    \/ part = "(?s:.)"
    \/ part = "." /\ b # 10
    \/ part \in DOMAIN EscapeTable /\ EscapeTable[part] = b

\* whether the regex of the pieces matches the buffer at offset start
\* (offsets count from 0)
MatchesAt(parts, buf, start) ==
    /\ start + Len(parts) <= Len(buf)
    /\ \A i \in 1..Len(parts) : PartMatches(parts[i], buf[start + i])

\* re.find(module_buf): the start of the leftmost match, or None
RegexFind(parts, buf) ==
    LET starts == { st \in 0..Len(buf) : MatchesAt(parts, buf, st) }
    IN IF starts = {}
         THEN [found |-> FALSE, start |-> 0]
         ELSE [found |-> TRUE,
               start |-> CHOOSE st \in starts : \A o \in starts : st <= o]

\* the byte a hex token stands for
TokenByte(token) == TokenTable[token]

\* four bytes to put where a signature has wildcards: the displacement
\* 0x1E89 of the 23H2 listing, the displacement -16, and one with 0x0A bytes
Fills == { << 137, 30, 0, 0 >>, << 240, 255, 255, 255 >>, << 10, 10, 0, 0 >> }

\* a byte string the signature matches, its wildcards filled from fill
Instance(tokens, fill) ==
    [i \in 1..Len(tokens) |->
        IF tokens[i] = "?"
          THEN fill[((Cardinality({ j \in 1..i : tokens[j] = "?" }) - 1) % 4) + 1]
          ELSE TokenByte(tokens[i])]

\* the same with its last byte changed, which the signature does not match
NearMiss(tokens, fill) ==
    [Instance(tokens, fill) EXCEPT ![Len(tokens)] = (@ + 1) % 256]

\* m filler bytes (0xCC)
Pad(m) == [i \in 1..m |-> 204]

\* the bytes 4C 8B 00 11 22 33 3C 9F
DocBuf == << 76, 139, 0, 17, 34, 51, 60, 159 >>

\* module bytes sampled for a signature: filler, then up to two of its
\* instances and near misses; every string over 4C, 9F and 0A up to
\* MaxShortBuf bytes; and DocBuf
ModuleBufs(tokens) ==
    LET pieces == { << >> } \cup
                  { Instance(tokens, f) : f \in Fills } \cup
                  { NearMiss(tokens, f) : f \in Fills }
    IN { Pad(m) \o x \o y : m \in 0..MaxPad, x \in pieces, y \in pieces }
         \cup SeqsUpTo({76, 159, 10}, MaxShortBuf)
         \cup {DocBuf}

\* u32::from_le_bytes
from_le_bytes(b) == U32(b[4] * 256 + b[3], b[2] * 256 + b[1])

\* `n as u32` of a usize
AsU32(n) == U32((n \div 65536) % 65536, n % 65536)

\* `x as umem` of a u32: the upper and the lower 32 bits of the u64
AsUmem(x) == << U32(0, 0), x >>

\* x + y on u32: the wrapped sum, and whether it overflowed
U32Add(x, y) ==
    LET lo == x[2] + y[2]
        hi == x[1] + y[1] + (lo \div 65536)
    IN [val |-> U32(hi % 65536, lo % 65536), overflow |-> hi >= 65536]

\* `buf_offs as u32 + u32::from_le_bytes(module_buf[buf_offs..buf_offs + 4])
\* + 0x4`: an overflowing + panics where the build checks overflow and
\* wraps where it does not
RipRelative(buf, buf_offs, checks) ==
    LET s1 == U32Add(AsU32(buf_offs),
                     from_le_bytes(SubSeq(buf, buf_offs + 1, buf_offs + 4)))
        s2 == U32Add(s1.val, U32(0, 4))
    IN [panic |-> checks /\ (s1.overflow \/ s2.overflow), val |-> s2.val]

\* find_global_slots_sig and find_gaf_sig, from the module bytes on
find_sig(tokens, buf, checks) ==
    LET m == RegexFind(RegexParts(tokens), buf)
        export_offs == RipRelative(buf, m.start + 3, checks)
    IN IF ~m.found
         THEN [NoSigOut EXCEPT !.status = "NotFound"]
         ELSE IF export_offs.panic
           THEN [NoSigOut EXCEPT !.status = "panic", !.start = m.start]
           ELSE [NoSigOut EXCEPT !.status = "Ok", !.start = m.start,
                                 !.val = AsUmem(export_offs.val)]

\* scan_module_sig_val32
scan_module_sig_val32(buf, tokens, offset_to_val32) ==
    LET m == RegexFind(RegexParts(tokens), buf)
        buf_offs == m.start + offset_to_val32
    IN IF ~m.found
         THEN [NoSigOut EXCEPT !.status = "NotFound"]
         ELSE [NoSigOut EXCEPT
                 !.status = "Ok", !.start = m.start,
                 !.val = AsUmem(from_le_bytes(SubSeq(buf, buf_offs + 1,
                                                     buf_offs + 4)))]

\* a signature, the bytes of a module and a build, before a function is
\* applied
InitSig ==
    /\ sig_tokens \in SigPatterns
    /\ module_buf \in ModuleBufs(sig_tokens)
    /\ sig_checks \in BOOLEAN
    /\ sig_op = "none"
    /\ sig_out = NoSigOut
    /\ WalkIdle
    /\ VersionIdle
    /\ KbdIdle
    /\ LocIdle
    /\ KernIdle
    /\ ProcInfoIdle
    /\ NtIdle
    /\ ViewIdle
    /\ KeyPathIdle
    /\ KernelNewIdle
    /\ SetDownIdle

\* ida_regex![tokens]
IdaRegex ==
    /\ sig_op = "none"
    /\ sig_op' = "ida_regex"
    /\ sig_out' = [NoSigOut EXCEPT !.status = "Ok",
                                   !.regex = ida_regex(sig_tokens)]
    /\ UNCHANGED << sig_tokens, module_buf, sig_checks >>
    /\ UNCHANGED << walk_vars, ver_vars, kbd_vars, loc_vars, kern_vars, pi_vars, nt_vars, vo_vars, kp_vars, kn_vars, sd_vars >>

\* scan_module_sig_val32(module_buf, ida_regex![tokens], offset_to_val32),
\* the four bytes at the offset lying inside the signature
ScanModuleSigVal32(offset_to_val32) ==
    /\ sig_op = "none"
    /\ offset_to_val32 + 4 <= Len(sig_tokens)
    /\ sig_op' = "scan_module_sig_val32"
    /\ sig_out' = scan_module_sig_val32(module_buf, sig_tokens, offset_to_val32)
    /\ UNCHANGED << sig_tokens, module_buf, sig_checks >>
    /\ UNCHANGED << walk_vars, ver_vars, kbd_vars, loc_vars, kern_vars, pi_vars, nt_vars, vo_vars, kp_vars, kn_vars, sd_vars >>

\* find_global_slots_sig with one of the two signatures it is given
FindGlobalSlotsSig ==
    /\ sig_op = "none"
    /\ sig_tokens \in {Sig24H2, Sig23H2}
    /\ sig_op' = "find_global_slots_sig"
    /\ sig_out' = find_sig(sig_tokens, module_buf, sig_checks)
    /\ UNCHANGED << sig_tokens, module_buf, sig_checks >>
    /\ UNCHANGED << walk_vars, ver_vars, kbd_vars, loc_vars, kern_vars, pi_vars, nt_vars, vo_vars, kp_vars, kn_vars, sd_vars >>

\* find_gaf_sig
FindGafSig ==
    /\ sig_op = "none"
    /\ sig_tokens = GafSig
    /\ sig_op' = "find_gaf_sig"
    /\ sig_out' = find_sig(sig_tokens, module_buf, sig_checks)
    /\ UNCHANGED << sig_tokens, module_buf, sig_checks >>
    /\ UNCHANGED << walk_vars, ver_vars, kbd_vars, loc_vars, kern_vars, pi_vars, nt_vars, vo_vars, kp_vars, kn_vars, sd_vars >>

NextSig ==
    \/ IdaRegex
    \/ \E offset_to_val32 \in 0..Len(sig_tokens) : ScanModuleSigVal32(offset_to_val32)
    \/ FindGlobalSlotsSig
    \/ FindGafSig

SpecSig == InitSig /\ [][NextSig]_vars

(***************************************************************************)
(* Properties of the signature functions.                                  *)
(***************************************************************************)
\* the offsets at which the pattern matches the buffer, by the tokens: a
\* hex token needs its byte, a ? takes any byte
MatchOffsets(tokens, buf) ==
    { st \in 0..(Len(buf) - Len(tokens)) :
        \A i \in 1..Len(tokens) :
            tokens[i] = "?" \/ buf[st + i] = TokenByte(tokens[i]) }

\* the least of a non-empty set of offsets
Lowest(offsets) == CHOOSE st \in offsets : \A o \in offsets : st <= o

\* the four bytes read as a little-endian i32
i32_le(b) ==
    b[1] + 256 * b[2] + 65536 * b[3] +
    16777216 * (IF b[4] >= 128 THEN b[4] - 256 ELSE b[4])

\* an integer as a umem, negative ones in two's complement: the sign
\* extension to 64 bits
SignExtended(n) ==
    IF n >= 0
      THEN << U32(0, 0), U32(n \div 65536, n % 65536) >>
      ELSE << U32(65535, 65535),
              U32(65535 - ((-n - 1) \div 65536), 65535 - ((-n - 1) % 65536)) >>

\* C18 as stated: when the signature first matches at offset m,
\* find_global_slots_sig and find_gaf_sig return
\* m + 3 + i32_le(buffer[m+3..m+7]) + 4, the displacement sign-extended,
\* negative displacements included.
C18_RipRelativeSigned ==
    ( /\ sig_op \in {"find_global_slots_sig", "find_gaf_sig"}
      /\ MatchOffsets(sig_tokens, module_buf) # {} ) =>
        LET m == Lowest(MatchOffsets(sig_tokens, module_buf))
        IN /\ sig_out.status = "Ok"
           /\ sig_out.val =
                SignExtended(m + 3 + i32_le(SubSeq(module_buf, m + 4, m + 7)) + 4)

\* C19: scan_module_sig_val32 finds the signature at the lowest offset at
\* which every hex token equals the buffer byte, a ? standing for any byte,
\* 0x0A included, and returns NotFound when there is no such offset;
\* 4C 8B ? ? ? ? 3C 9F is found in 4C 8B 00 11 22 33 3C 9F at offset 0.
C19_ScanSemantics ==
    /\ sig_op = "scan_module_sig_val32" =>
          IF MatchOffsets(sig_tokens, module_buf) = {}
            THEN sig_out.status = "NotFound"
            ELSE /\ sig_out.status = "Ok"
                 /\ sig_out.start = Lowest(MatchOffsets(sig_tokens, module_buf))
    /\ ( /\ sig_op = "scan_module_sig_val32"
         /\ sig_tokens = << "4C", "8B", "?", "?", "?", "?", "3C", "9F" >>
         /\ module_buf = << 76, 139, 0, 17, 34, 51, 60, 159 >> ) =>
          (sig_out.status = "Ok" /\ sig_out.start = 0)

\* witness of C19: a signature found behind a near miss, with 0x0A bytes
\* where it has wildcards
C19_Witness ==
    /\ sig_op = "scan_module_sig_val32"
    /\ sig_tokens = DocSig
    /\ module_buf = NearMiss(DocSig, << 10, 10, 0, 0 >>) \o
                    Instance(DocSig, << 10, 10, 0, 0 >>)
    /\ sig_out.status = "Ok"
    /\ sig_out.start = 8

\* C20 as stated: ida_regex! yields the prefix (?-u) followed by one piece
\* per token, in order, and for 4C 8B ? ? ? ? 3C 9F exactly the string
\* (?-u)\x4C\x8B(?s:.){4}\x3C\x9F.
C20_RegexString ==
    sig_op = "ida_regex" =>
        /\ sig_out.regex =
              "(?-u)" \o concat([i \in 1..Len(sig_tokens) |->
                                   IF sig_tokens[i] = "?"
                                     THEN "(?s:.)"
                                     ELSE "\\x" \o sig_tokens[i]])
        /\ sig_tokens = << "4C", "8B", "?", "?", "?", "?", "3C", "9F" >> =>
              sig_out.regex = "(?-u)\\x4C\\x8B(?s:.){4}\\x3C\\x9F"

(***************************************************************************)
(* kernel::ntos::x86::find: the scan for ntoskrnl.exe in high memory.      *)
(***************************************************************************)
\* number of 8 MiB windows the sampled memory covers (the code scans 32)
NumWindows == 2
\* number of 4 KiB pages sampled at the start of each window (of 2048)
PagesPerWindow == 2
\* number of sampled pages that are not blank
MaxImages == 2

SIZE_256MB == 268435456
SIZE_8MB == 8388608
SIZE_4KB == 4096

\* IMAGE_DOS_SIGNATURE, "MZ"
DosMagic == 23117
\* the largest e_lfanew the scan accepts, 0x800
MaxLfanew == 2048

\* the (window, page) pairs of the sampled memory, and their scan order
PageIndexes == (0..(NumWindows - 1)) \X (0..(PagesPerWindow - 1))

ScansBefore(i, j) == i[1] < j[1] \/ (i[1] = j[1] /\ i[2] < j[2])

\* Address::from(base_addr + addr) with base_addr = size::gb(2) + window * 8 MiB
ImageBase(i) ==
    LET offs == i[1] * SIZE_8MB + i[2] * SIZE_4KB
    IN U32(32768 + offs \div 65536, offs % 65536)

\* a page of zeroes that the window read returns
Blank ==
    [readable |-> TRUE, e_magic |-> 0, e_lfanew |-> 0, name_ok |-> FALSE,
     name |-> "", size_ok |-> FALSE, size |-> 0]

\* a complete kernel image header
Ntos ==
    [readable |-> TRUE, e_magic |-> DosMagic, e_lfanew |-> MaxLfanew,
     name_ok |-> TRUE, name |-> "ntoskrnl.exe", size_ok |-> TRUE,
     size |-> 6291456]

\* the pages that are not blank: each fails one test of the scan, or none
Images ==
    { [Blank EXCEPT !.readable = FALSE],
      [Ntos EXCEPT !.e_magic = 19802],
      [Ntos EXCEPT !.e_lfanew = MaxLfanew + 1],
      [Ntos EXCEPT !.name_ok = FALSE, !.name = ""],
      [Ntos EXCEPT !.name = "hal.dll"],
      [Ntos EXCEPT !.size_ok = FALSE, !.size = 0],
      Ntos,
      [Ntos EXCEPT !.e_lfanew = 128, !.size = 8388608] }

\* the ways to place at most n pages that are not blank
ImagePlacements(n) ==
    UNION { [S -> Images] :
              S \in { T \in SUBSET PageIndexes : Cardinality(T) <= n } }

\* the memories of the sample: at most n pages are not blank
NtMemories(n) ==
    { [i \in PageIndexes |-> IF i \in DOMAIN f THEN f[i] ELSE Blank] :
        f \in ImagePlacements(n) }

\* buf = vec![0; SIZE_8MB] after read_raw_into(..).data_part(): the pages
\* whose read failed keep their zeroes
BufPage(page) == IF page.readable THEN page ELSE Blank

\* the two `continue` tests on the IMAGE_DOS_HEADER of buf[addr..]
HeaderSkips_MagicOnly(view) == view.e_magic # DosMagic

HeaderSkips(view) ==
    \/ view.e_magic # DosMagic
    \/ view.e_lfanew > MaxLfanew

\* whether the body of the inner loop returns for this page
PageReturns(page) ==
    /\ ~HeaderSkips(BufPage(page))
    /\ page.name_ok
    /\ page.name = "ntoskrnl.exe"
    /\ page.size_ok

RECURSIVE ScanWindow(_, _, _)
\* for addr in (0..SIZE_8MB).step_by(SIZE_4KB), from page p on
ScanWindow(pages, w, p) ==
    IF p = PagesPerWindow
      THEN NoNtOut
      ELSE IF PageReturns(pages[<< w, p >>])
             THEN [status |-> "Ok", base |-> ImageBase(<< w, p >>),
                   size |-> pages[<< w, p >>].size]
             ELSE ScanWindow(pages, w, p + 1)

RECURSIVE find(_, _, _)
\* for base_addr in (0..SIZE_256MB).step_by(SIZE_8MB), from window w on
find(pages, failing, w) ==
    IF w = NumWindows
      THEN [NoNtOut EXCEPT !.status = "ProcessNotFound"]
      ELSE IF w \in failing
             THEN [NoNtOut EXCEPT !.status = "ReadError"]
             ELSE LET r == ScanWindow(pages, w, 0)
                  IN IF r.status = "Ok" THEN r ELSE find(pages, failing, w + 1)

InitNtos ==
    /\ nt_pages \in NtMemories(MaxImages)
    /\ nt_failing \in SUBSET (0..(NumWindows - 1))
    /\ nt_op = "none"
    /\ nt_out = NoNtOut
    /\ WalkIdle
    /\ VersionIdle
    /\ KbdIdle
    /\ LocIdle
    /\ KernIdle
    /\ ProcInfoIdle
    /\ SigIdle
    /\ ViewIdle
    /\ KeyPathIdle
    /\ KernelNewIdle
    /\ SetDownIdle

X86Find ==
    /\ nt_op = "none"
    /\ nt_op' = "find"
    /\ nt_out' = find(nt_pages, nt_failing, 0)
    /\ UNCHANGED << nt_pages, nt_failing >>
    /\ UNCHANGED << walk_vars, ver_vars, kbd_vars, loc_vars, kern_vars, pi_vars, sig_vars, vo_vars, kp_vars, kn_vars, sd_vars >>

NextNtos == X86Find

SpecNtos == InitNtos /\ [][NextNtos]_vars

\* the tests of the claim, on the memory itself
Qualifies(page) ==
    /\ page.readable
    /\ page.e_magic = DosMagic
    /\ page.e_lfanew <= MaxLfanew
    /\ page.name_ok /\ page.name = "ntoskrnl.exe"
    /\ page.size_ok

Qualifying == { i \in PageIndexes : Qualifies(nt_pages[i]) }

LowestQualifying ==
    CHOOSE i \in Qualifying : \A j \in Qualifying : j = i \/ ScansBefore(i, j)

\* the windows the scan reads before it can return page i
WindowsUpTo(i) == 0..i[1]

\* C21 as stated: find returns the lowest qualifying page with its
\* SizeOfImage, and fails with ProcessNotFound exactly when no page qualifies
C21_LowestQualifying ==
    nt_op = "find" =>
        IF Qualifying = {}
          THEN nt_out.status = "ProcessNotFound"
          ELSE /\ nt_out.status = "Ok"
               /\ nt_out.base = ImageBase(LowestQualifying)
               /\ nt_out.size = nt_pages[LowestQualifying].size

\* C21, amended: the same, as long as no window read on the way fails
\* entirely; a window read that fails entirely before a page was accepted
\* ends the call with that error, and ProcessNotFound is returned exactly
\* when no page qualifies and no window read failed entirely
C21_LowestQualifyingUnlessReadFails ==
    nt_op = "find" =>
        LET reached == Qualifying # {} /\
                       WindowsUpTo(LowestQualifying) \cap nt_failing = {}
        IN /\ reached =>
                /\ nt_out.status = "Ok"
                /\ nt_out.base = ImageBase(LowestQualifying)
                /\ nt_out.size = nt_pages[LowestQualifying].size
           /\ (~reached /\ nt_failing # {}) => nt_out.status = "ReadError"
           /\ (Qualifying = {} /\ nt_failing = {}) <=>
                  nt_out.status = "ProcessNotFound"

\* found: a page that fails a test precedes the accepted one in a window
\* that was read only in part
C21_Witness ==
    /\ nt_op = "find"
    /\ nt_out.status = "Ok"
    /\ \E i \in PageIndexes :
         /\ ScansBefore(i, LowestQualifying)
         /\ nt_pages[i] # Blank
         /\ ~nt_pages[i].readable
         /\ i[1] = LowestQualifying[1]

(***************************************************************************)
(* Win32Version: the accessors and Display.                                *)
(***************************************************************************)
\* versions whose accessors are called: major 0 and more upper halves
\* around the 0xC000 tag, among them 0xC0005ABC
ViewMajors == Majors \cup {0}
ViewHighs == BuildHighs \cup {16384, 32768, 49153, 53247, 53248}
ViewLows == BuildLows \cup {23228}
ViewVersions ==
    { Win32Version(ma, mi, U32(hi, lo)) :
        ma \in ViewMajors, mi \in Minors, hi \in ViewHighs, lo \in ViewLows }

\* u32 & u32
U32And(x, y) == U32(BitAnd(x[1], y[1]), BitAnd(x[2], y[2]))

\* Win32Version::mask_build_number
mask_build_number(self) ==
    [self EXCEPT !.nt_build_number = U32And(self.nt_build_number, U32(0, 65535))]

\* Win32Version::is_checked_build
is_checked_build(self) ==
    U32And(self.nt_build_number, U32(61440, 0)) = U32(49152, 0)

\* Win32Version::as_tuple
as_tuple(self) ==
    << self.nt_major_version, self.nt_minor_version, build_number(self) >>

DecimalDigits == << "0", "1", "2", "3", "4", "5", "6", "7", "8", "9" >>

RECURSIVE Decimal(_)
\* "{}" of a u32 below 2^16
Decimal(n) ==
    IF n < 10
      THEN DecimalDigits[n + 1]
      ELSE Decimal(n \div 10) \o DecimalDigits[(n % 10) + 1]

\* <Win32Version as Display>::fmt
Display(self) ==
    IF self.nt_major_version # 0
      THEN Decimal(self.nt_major_version) \o "." \o
           Decimal(self.nt_minor_version) \o "." \o
           Decimal(build_number(self)[2])
      ELSE Decimal(build_number(self)[2])

InitVersionView ==
    /\ ver_a \in ViewVersions
    /\ ver_b = NoVersion
    /\ ver_op = "none"
    /\ ver_out = "none"
    /\ ver_view = NoView
    /\ WalkIdle
    /\ KbdIdle
    /\ LocIdle
    /\ KernIdle
    /\ ProcInfoIdle
    /\ SigIdle
    /\ NtIdle
    /\ KeyPathIdle
    /\ KernelNewIdle
    /\ SetDownIdle

\* what every accessor leaves alone
ViewFrame ==
    /\ UNCHANGED << ver_a, ver_b, ver_out >>
    /\ UNCHANGED << walk_vars, kbd_vars, loc_vars, kern_vars, pi_vars, sig_vars, nt_vars, kp_vars, kn_vars, sd_vars >>

BuildNumber ==
    /\ ver_op' = "build_number"
    /\ ver_view' = [ver_view EXCEPT !.build = build_number(ver_a)]
    /\ ViewFrame

AsTuple ==
    /\ ver_op' = "as_tuple"
    /\ ver_view' = [ver_view EXCEPT !.tuple = as_tuple(ver_a)]
    /\ ViewFrame

VersionToString ==
    /\ ver_op' = "to_string"
    /\ ver_view' = [ver_view EXCEPT !.text = Display(ver_a)]
    /\ ViewFrame

IsCheckedBuild ==
    /\ ver_op' = "is_checked_build"
    /\ ver_view' = [ver_view EXCEPT !.checked = is_checked_build(ver_a)]
    /\ ViewFrame

MaskBuildNumber ==
    /\ ver_op' = "mask_build_number"
    /\ ver_view' = [ver_view EXCEPT !.masked = mask_build_number(ver_a)]
    /\ ViewFrame

NextVersionView ==
    \/ BuildNumber
    \/ AsTuple
    \/ VersionToString
    \/ IsCheckedBuild
    \/ MaskBuildNumber

SpecVersionView == InitVersionView /\ [][NextVersionView]_vars

\* the decimal text of a number below 2^16, digit by digit
DecimalText(n) ==
    LET d(k) == DecimalDigits[((n \div k) % 10) + 1]
    IN (IF n >= 10000 THEN d(10000) ELSE "") \o
       (IF n >= 1000 THEN d(1000) ELSE "") \o
       (IF n >= 100 THEN d(100) ELSE "") \o
       (IF n >= 10 THEN d(10) ELSE "") \o d(1)

\* the top four bits of the raw build of v
TopNibble(v) == v.nt_build_number[1] \div 4096

Le == {"Less", "Equal"}

Reverse(o) ==
    CASE o = "Less" -> "Greater"
      [] o = "Greater" -> "Less"
      [] o = "Equal" -> "Equal"

\* C26: cmp is antisymmetric (a.cmp(b) is the reverse of b.cmp(a)) and
\* transitive (a <= b and b <= c imply a <= c) over all versions, mixes of
\* zero and non-zero build numbers included.
C26_LawfulTotalOrder ==
    ver_op = "cmp" =>
        /\ ver_out = Reverse(VersionCmp(ver_b, ver_a))
        /\ \A c \in Versions :
              (ver_out \in Le /\ VersionCmp(ver_b, c) \in Le) =>
                  VersionCmp(ver_a, c) \in Le

(***************************************************************************)
(* Win32Keyboard::find_in_user_process: the lookups of the Windows 10 and  *)
(* of the Windows 11 path, step by step.                                   *)
(***************************************************************************)
\* kernel versions sampled: those of the locator, and versions whose 16-bit
\* build is 0 (with and without the 0xF000 tag) or lies between the two
\* thresholds under another major version
KeyPathVersions ==
    LocVersions \cup
    { Win32Version(6, 1, U32(0, 0)),
      Win32Version(6, 3, U32(61440, 0)),
      Win32Version(10, 0, U32(61440, 0)),
      Win32Version(6, 1, U32(0, 22625)),
      Win32Version(10, 0, U32(61440, 22631)) }

\* `n as umem` of a number below 2^31
UmemOf(n) == AsUmem(AsU32(n))

\* umem + umem
UmemAdd(a, b) ==
    LET lo == U32Add(a[2], b[2])
        hi == U32Add(a[1], b[1]).val
    IN << IF lo.overflow THEN U32Add(hi, U32(0, 1)).val ELSE hi, lo.val >>

\* win32kbase_module_info.base and win32ksgd_module_info.base of the sample
Win32kbaseBase == << U32(65535, 63494), U32(7232, 0) >>
TargetModuleBase == << U32(65535, 63494), U32(7296, 0) >>

\* the pointer the proxy process holds at address a
PointerAt(a) == << a[1], U32((a[2][1] + 257) % 65536, (a[2][2] + 4660) % 65536) >>

\* what find_gaf_pe meets: the export at an offset, an export list that
\* cannot be walked, or a list without gafAsyncKeyState
PeOutcomes ==
    { [status |-> "Ok", offset |-> UmemOf(2842384)],
      [status |-> "Err", offset |-> ZeroUmem],
      [status |-> "Missing", offset |-> ZeroUmem] }

\* bytes of win32kbase.sys sampled for the gafAsyncKeyState signature
GafBufs ==
    { Pad(m) \o Instance(GafSig, f) : m \in {0, 2}, f \in Fills }
      \cup { NearMiss(GafSig, << 137, 30, 0, 0 >>) }

\* bytes of win32kbase.sys sampled for the key state offset: the immediates
\* 0x3808, 0x36a8 and 0xFFFFFFFF, and a near miss
KeyBufs ==
    { Pad(1) \o Instance(KeyStateSig, f) :
        f \in { << 0, 0, 8, 56 >>, << 0, 0, 168, 54 >>, << 255, 255, 255, 255 >> } }
      \cup { NearMiss(KeyStateSig, << 0, 0, 8, 56 >>) }

\* bytes of the session module sampled for gSessionGlobalSlots; the
\* displacement -7 at offset 0 resolves to offset 0
SlotBufs(sig) ==
    { Pad(m) \o Instance(sig, f) :
        m \in {0, 2}, f \in Fills \cup { << 249, 255, 255, 255 >> } }
      \cup { NearMiss(sig, << 137, 30, 0, 0 >>) }

\* readable bytes of a module, or a module whose read fails entirely
ModuleReads(bufs) ==
    { [ok |-> TRUE, buf |-> b] : b \in bufs } \cup { [ok |-> FALSE, buf |-> << >>] }

\* the proxy process: found and opened, not found, or found but not opened
ProcReads ==
    { [info_ok |-> TRUE, open_ok |-> TRUE], [info_ok |-> FALSE, open_ok |-> FALSE],
      [info_ok |-> TRUE, open_ok |-> FALSE] }

\* the targets sampled for a version: the inputs of the other path are kept
\* at one value
KeyPathEnvs(winver) ==
    IF is_win11(winver)
      THEN { [modules |-> ms, info_ok |-> pr.info_ok, open_ok |-> pr.open_ok,
              pe |-> [status |-> "Missing", offset |-> ZeroUmem],
              kbase_ok |-> kb.ok, kbase_buf |-> kb.buf,
              target_ok |-> tg.ok, target_buf |-> tg.buf,
              fail_at |-> n, checks |-> c] :
               ms \in LocModuleSets, pr \in ProcReads,
               kb \in ModuleReads(KeyBufs),
               tg \in ModuleReads(SlotBufs(SessionGlobalSlots(winver).sig)),
               n \in 0..3, c \in BOOLEAN }
      ELSE { [modules |-> ms, info_ok |-> pr.info_ok, open_ok |-> pr.open_ok,
              pe |-> pe, kbase_ok |-> kb.ok, kbase_buf |-> kb.buf,
              target_ok |-> FALSE, target_buf |-> << >>,
              fail_at |-> 0, checks |-> c] :
               ms \in LocModuleSets, pr \in ProcReads, pe \in PeOutcomes,
               kb \in ModuleReads(GafBufs), c \in BOOLEAN }

\* find_gaf_sig and find_global_slots_sig: read_raw(..).data_part()?, then
\* the search
find_sig_in_module(ok, buf, tokens, checks) ==
    IF ~ok
      THEN [NoSigOut EXCEPT !.status = "Err"]
      ELSE find_sig(tokens, buf, checks)

\* .map(|offset| if offset == 0 { fallback } else { offset })
\* .unwrap_or(fallback)
SlotsOffset_NoSanity(r, fallback) ==
    IF r.status = "Ok" THEN r.val ELSE UmemOf(fallback)

SlotsOffset(r, fallback) ==
    IF r.status = "Ok"
      THEN (IF r.val = ZeroUmem THEN UmemOf(fallback) ELSE r.val)
      ELSE UmemOf(fallback)

\* scan_module_sig_val32(..).unwrap_or(key_state_offset_fallback)
KeyStateOffset(r, fallback) ==
    IF r.status = "Ok" THEN r.val ELSE UmemOf(fallback)

InitKeyPath ==
    /\ kp_winver \in KeyPathVersions
    /\ kp_env \in KeyPathEnvs(kp_winver)
    /\ kp_pc = "idle"
    /\ kp_loc = NoKpLoc
    /\ kp_steps = << >>
    /\ kp_out = NoKpOut
    /\ WalkIdle
    /\ VersionIdle
    /\ KbdIdle
    /\ LocIdle
    /\ KernIdle
    /\ ProcInfoIdle
    /\ SigIdle
    /\ NtIdle
    /\ ViewIdle
    /\ KernelNewIdle
    /\ SetDownIdle

KeyPathFrame ==
    /\ UNCHANGED << kp_winver, kp_env >>
    /\ UNCHANGED << walk_vars, ver_vars, kbd_vars, loc_vars, kern_vars, pi_vars, sig_vars, nt_vars, vo_vars, kn_vars, sd_vars >>

\* return from find_in_user_process
KpReturn(status, addr) ==
    /\ kp_pc' = "done"
    /\ kp_out' = [status |-> status, addr |-> addr]

\* process_info_by_pid, process_info_from_base_info and
\* module_by_name("win32kbase.sys"), then the choice of the branch
KpEnter ==
    /\ kp_pc = "idle"
    /\ kp_steps' = Append(kp_steps, "enter")
    /\ IF ~kp_env.info_ok \/ "win32kbase.sys" \notin kp_env.modules
         THEN /\ KpReturn("Err", ZeroUmem)
              /\ UNCHANGED kp_loc
         ELSE IF is_win11(kp_winver)
           THEN /\ kp_pc' = "module"
                /\ kp_loc' = [kp_loc EXCEPT !.sel = SessionGlobalSlots(kp_winver)]
                /\ UNCHANGED kp_out
           ELSE /\ kp_pc' = "open"
                /\ kp_loc' = [kp_loc EXCEPT !.sel = GafSelection]
                /\ UNCHANGED kp_out
    /\ KeyPathFrame

\* match kernel.module_by_name(target_kernel_module_name)
KpTargetModule ==
    /\ kp_pc = "module"
    /\ kp_steps' = Append(kp_steps, "module_by_name")
    /\ IF kp_loc.sel.module \in kp_env.modules
         THEN kp_pc' = "open" /\ UNCHANGED kp_out
         ELSE KpReturn("ModuleNotFound", ZeroUmem)
    /\ UNCHANGED kp_loc
    /\ KeyPathFrame

\* kernel.process_by_info(user_process_info)?
KpOpen ==
    /\ kp_pc = "open"
    /\ kp_steps' = Append(kp_steps, "process_by_info")
    /\ IF kp_env.open_ok
         THEN /\ kp_pc' = IF kp_loc.sel.path = "Win11" THEN "key_scan" ELSE "gaf_pe"
              /\ UNCHANGED kp_out
         ELSE KpReturn("Err", ZeroUmem)
    /\ UNCHANGED kp_loc
    /\ KeyPathFrame

\* the read of win32kbase.sys and scan_module_sig_val32 at offset 9
KpKeyScan ==
    /\ kp_pc = "key_scan"
    /\ kp_steps' = Append(kp_steps, "scan_module_sig_val32")
    /\ IF kp_env.kbase_ok
         THEN /\ kp_pc' = "slots_scan"
              /\ kp_loc' = [kp_loc EXCEPT !.key_state_offset =
                    KeyStateOffset(scan_module_sig_val32(kp_env.kbase_buf,
                                                         KeyStateSig, 9),
                                   kp_loc.sel.key_fallback)]
              /\ UNCHANGED kp_out
         ELSE /\ KpReturn("Err", ZeroUmem)
              /\ UNCHANGED kp_loc
    /\ KeyPathFrame

\* g_session_global_slots_address = base + find_global_slots_sig(..)...
KpSlotsScan ==
    /\ kp_pc = "slots_scan"
    /\ kp_steps' = Append(kp_steps, "find_global_slots_sig")
    /\ LET r == find_sig_in_module(kp_env.target_ok, kp_env.target_buf,
                                   kp_loc.sel.sig, kp_env.checks)
           offset == SlotsOffset(r, kp_loc.sel.slots_fallback)
       IN IF r.status = "panic"
            THEN /\ KpReturn("panic", ZeroUmem)
                 /\ UNCHANGED kp_loc
            ELSE /\ kp_pc' = "deref"
                 /\ kp_loc' = [kp_loc EXCEPT
                       !.slots_found = (r.status = "Ok"),
                       !.slots_offset = offset,
                       !.ptr = UmemAdd(TargetModuleBase, offset)]
                 /\ UNCHANGED kp_out
    /\ KeyPathFrame

\* one of the three read_addr_arch(..)? and, after the third, the Ok
KpDeref ==
    /\ kp_pc = "deref"
    /\ kp_steps' = Append(kp_steps, "read_addr_arch")
    /\ IF kp_env.fail_at = kp_loc.derefs + 1
         THEN /\ KpReturn("Err", ZeroUmem)
              /\ UNCHANGED kp_loc
         ELSE /\ kp_loc' = [kp_loc EXCEPT !.ptr = PointerAt(kp_loc.ptr),
                                          !.derefs = kp_loc.derefs + 1]
              /\ IF kp_loc.derefs + 1 = 3
                   THEN KpReturn("Ok", UmemAdd(PointerAt(kp_loc.ptr),
                                               kp_loc.key_state_offset))
                   ELSE UNCHANGED << kp_pc, kp_out >>
    /\ KeyPathFrame

\* Self::find_gaf_pe(..)
KpGafPe_ScanAlways ==
    /\ kp_pc = "gaf_pe"
    /\ kp_steps' = Append(kp_steps, "find_gaf_pe")
    /\ kp_pc' = "gaf_sig"
    /\ UNCHANGED << kp_out, kp_loc >>
    /\ KeyPathFrame

KpGafPe ==
    /\ kp_pc = "gaf_pe"
    /\ kp_steps' = Append(kp_steps, "find_gaf_pe")
    /\ IF kp_env.pe.status = "Ok"
         THEN KpReturn("Ok", UmemAdd(Win32kbaseBase, kp_env.pe.offset))
         ELSE kp_pc' = "gaf_sig" /\ UNCHANGED kp_out
    /\ UNCHANGED kp_loc
    /\ KeyPathFrame

\* .or_else(|_| Self::find_gaf_sig(..))?
KpGafSig ==
    /\ kp_pc = "gaf_sig"
    /\ kp_steps' = Append(kp_steps, "find_gaf_sig")
    /\ LET r == find_sig_in_module(kp_env.kbase_ok, kp_env.kbase_buf, GafSig,
                                   kp_env.checks)
       IN IF r.status = "Ok"
            THEN KpReturn("Ok", UmemAdd(Win32kbaseBase, r.val))
            ELSE IF r.status = "panic"
              THEN KpReturn("panic", ZeroUmem)
              ELSE KpReturn("Err", ZeroUmem)
    /\ UNCHANGED kp_loc
    /\ KeyPathFrame

NextKeyPath ==
    \/ KpEnter
    \/ KpTargetModule
    \/ KpOpen
    \/ KpKeyScan
    \/ KpSlotsScan
    \/ KpDeref
    \/ KpGafPe
    \/ KpGafSig

SpecKeyPath == InitKeyPath /\ [][NextKeyPath]_vars

\* whether a lookup was made, and whether one was made before another
Did(step) == \E i \in 1..Len(kp_steps) : kp_steps[i] = step

DidBefore(a, b) ==
    \E i, j \in 1..Len(kp_steps) : i < j /\ kp_steps[i] = a /\ kp_steps[j] = b

OnWin10Path == kp_loc.sel.path = "Win10"
OnWin11Path == kp_loc.sel.path = "Win11"

\* the two lookups of gafAsyncKeyState, on the target itself
GafExport == kp_env.pe
GafScan ==
    find_sig_in_module(kp_env.kbase_ok, kp_env.kbase_buf, GafSig, kp_env.checks)

Win10Address ==
    UmemAdd(Win32kbaseBase,
            IF GafExport.status = "Ok" THEN GafExport.offset ELSE GafScan.val)

\* C23 as stated: on the Win10 path the signature scan runs only after the
\* export lookup has failed, the path fails only if both fail, and the
\* address returned is win32kbase.base + the offset obtained
C23_ExportFirst ==
    OnWin10Path =>
        /\ Did("find_gaf_sig") =>
              DidBefore("find_gaf_pe", "find_gaf_sig") /\ GafExport.status # "Ok"
        /\ (kp_pc = "done" /\ kp_out.status # "Ok") =>
              GafExport.status # "Ok" /\ GafScan.status # "Ok"
        /\ (kp_pc = "done" /\ kp_out.status = "Ok") =>
              kp_out.addr = Win10Address

\* C23, amended: the same once the proxy process has been opened; the path
\* also fails, before either lookup, when process_by_info fails
C23_ExportFirstOnceOpened ==
    OnWin10Path =>
        /\ Did("find_gaf_sig") =>
              DidBefore("find_gaf_pe", "find_gaf_sig") /\ GafExport.status # "Ok"
        /\ (kp_pc = "done" /\ kp_out.status # "Ok") =>
              \/ ~kp_env.open_ok /\ ~Did("find_gaf_pe")
              \/ GafExport.status # "Ok" /\ GafScan.status # "Ok"
        /\ (kp_pc = "done" /\ kp_out.status = "Ok") =>
              kp_env.open_ok /\ kp_out.addr = Win10Address

\* the export lookup failed and the signature scan gave the address
C23_Witness ==
    /\ OnWin10Path
    /\ kp_pc = "done"
    /\ kp_out.status = "Ok"
    /\ GafExport.status = "Missing"
    /\ Did("find_gaf_sig")
    /\ kp_out.addr = UmemAdd(Win32kbaseBase, GafScan.val)

\* the two scans of the Win11 path, on the target itself
SlotsScan ==
    find_sig_in_module(kp_env.target_ok, kp_env.target_buf, kp_loc.sel.sig,
                       kp_env.checks)
KeyScan == scan_module_sig_val32(kp_env.kbase_buf, KeyStateSig, 9)

deref3(a) == PointerAt(PointerAt(PointerAt(a)))

KeyStateK ==
    IF KeyScan.status = "Ok" THEN KeyScan.val ELSE UmemOf(kp_loc.sel.key_fallback)

\* C24 as stated: on the Win11 path the address returned is
\* deref3(module.base + G) + K, G the pattern-resolved offset or the
\* branch's fallback when the scan fails, K the immediate at match+9 or the
\* branch's fallback on a miss; a failed pointer read fails the locator
C24_Win11Address ==
    (OnWin11Path /\ kp_pc = "done") =>
        LET G == IF SlotsScan.status = "Ok"
                   THEN SlotsScan.val
                   ELSE UmemOf(kp_loc.sel.slots_fallback)
        IN /\ kp_out.status = "Ok" =>
                kp_out.addr = UmemAdd(deref3(UmemAdd(TargetModuleBase, G)),
                                      KeyStateK)
           /\ (Did("read_addr_arch") /\ kp_env.fail_at # 0) =>
                kp_out.status = "Err"

\* C24, amended: G is the branch's fallback also when the scan resolves to
\* offset 0
C24_Win11AddressNonZero ==
    (OnWin11Path /\ kp_pc = "done") =>
        LET G == IF SlotsScan.status = "Ok" /\ SlotsScan.val # ZeroUmem
                   THEN SlotsScan.val
                   ELSE UmemOf(kp_loc.sel.slots_fallback)
        IN /\ kp_out.status = "Ok" =>
                kp_out.addr = UmemAdd(deref3(UmemAdd(TargetModuleBase, G)),
                                      KeyStateK)
           /\ (Did("read_addr_arch") /\ kp_env.fail_at # 0) =>
                kp_out.status = "Err"

\* both scans matched, and the three reads succeeded
C24_Witness ==
    /\ OnWin11Path
    /\ kp_pc = "done"
    /\ kp_out.status = "Ok"
    /\ SlotsScan.status = "Ok"
    /\ SlotsScan.val # ZeroUmem
    /\ KeyScan.status = "Ok"
    /\ kp_loc.derefs = 3

\* (major, minor) >= (10, 0)
AtLeast10_0(v) ==
    v.nt_major_version > 10 \/ (v.nt_major_version = 10 /\ v.nt_minor_version >= 0)

\* C29: a version whose 16-bit build is 0 takes the 24H2 branch
\* (win32k.sys) when (major, minor) >= (10, 0) and the Win10 branch
\* otherwise; the 23H2 branch (WIN32KSGD.SYS) is taken only with a non-zero
\* build b, 22621 <= b < 22632.
C29_ZeroBuildBranch ==
    kp_loc.sel # NoSel =>
        /\ LowBuild(kp_winver) = 0 =>
              IF AtLeast10_0(kp_winver)
                THEN kp_loc.sel.path = "Win11" /\ kp_loc.sel.module = "win32k.sys"
                ELSE kp_loc.sel.path = "Win10"
        /\ kp_loc.sel.module = "WIN32KSGD.SYS" =>
              /\ LowBuild(kp_winver) # 0
              /\ 22621 <= LowBuild(kp_winver)
              /\ LowBuild(kp_winver) < 22632

\* a free build tag with 16-bit build 0 went to win32k.sys
C29_Witness ==
    /\ kp_winver = Win32Version(10, 0, U32(61440, 0))
    /\ kp_loc.sel.module = "win32k.sys"
    /\ Did("module_by_name")

(***************************************************************************)
(* Win32Kernel::new: the memory map and the DTB of the system process.     *)
(***************************************************************************)
\* kernel_info.os_info.base of the sample (0x400000)
OsInfoBase == 4194304

\* offsets.phys_mem_block(): absent (0) or MmPhysicalMemoryBlock's offset
PhysMemBlocks == {0, 12884736}

\* word read at eprocess_base + kproc_dtb when the connector maps only the
\* descriptor's runs, and when it maps everything
KnEnvs ==
    [phys_mem_block : PhysMemBlocks, arch : Archs, parse_ok : BOOLEAN,
     word_mapped : EprocDtbWords,
     word_unmapped : {ReadErr, ReadOk(1757184)}]

\* the `if offsets.phys_mem_block() != 0` and the match on the bits of the
\* architecture: whether mem_map::parse is called
DescriptorRead(env) ==
    /\ env.phys_mem_block # 0
    /\ bits(env.arch) \in {32, 64}

\* the same and the `if let Some(mem_map) = mem_map::parse(..)`
MemMapParsed_Unguarded(env) == env.parse_ok

MemMapParsed(env) == DescriptorRead(env) /\ env.parse_ok

\* whether set_mem_map was called
MemMapSet(log) == \E i \in 1..Len(log) : log[i].ev = "set_mem_map"

InitKernelNew ==
    /\ kn_env \in KnEnvs
    /\ kn_log = << >>
    /\ kernel_pc = "raw"
    /\ kernel_info_dtb \in BootDtbs
    /\ eproc_dtb_word = ReadErr
    /\ vat_dtb = kernel_info_dtb
    /\ sysproc_dtb = 0
    /\ kernel_modules = None
    /\ target = NoTarget
    /\ kernel_calls = 0
    /\ kernel_out = NoKernelOut
    /\ WalkIdle
    /\ VersionIdle
    /\ KbdIdle
    /\ LocIdle
    /\ ProcInfoIdle
    /\ SigIdle
    /\ NtIdle
    /\ ViewIdle
    /\ KeyPathIdle
    /\ SetDownIdle

KernelNewFrame ==
    /\ UNCHANGED << kn_env, kernel_info_dtb, target, kernel_calls, kernel_out >>
    /\ UNCHANGED << walk_vars, ver_vars, kbd_vars, loc_vars, pi_vars, sig_vars, nt_vars, vo_vars, kp_vars, sd_vars >>

\* the first fix-up: parse the descriptor through the translator built on
\* kernel_info.dtb, hand its runs to the connector and build the translator
\* again on kernel_info.dtb
KnMemMap ==
    /\ kernel_pc = "raw"
    /\ kernel_pc' = "mapped"
    /\ LET parse == [ev |-> "parse", dtb |-> vat_dtb,
                     addr |-> OsInfoBase + kn_env.phys_mem_block,
                     width |-> bits(kn_env.arch)]
           set == [ev |-> "set_mem_map", dtb |-> 0, addr |-> 0, width |-> 0]
       IN IF MemMapParsed(kn_env)
            THEN /\ kn_log' = kn_log \o << parse, set >>
                 /\ vat_dtb' = kernel_info_dtb
            ELSE IF DescriptorRead(kn_env)
              THEN /\ kn_log' = Append(kn_log, parse)
                   /\ UNCHANGED vat_dtb
              ELSE UNCHANGED << kn_log, vat_dtb >>
    /\ UNCHANGED << eproc_dtb_word, sysproc_dtb, kernel_modules >>
    /\ KernelNewFrame

\* the second fix-up and the construction of Self
KnSysprocDtb ==
    /\ kernel_pc = "mapped"
    /\ kernel_pc' = "ready"
    /\ LET word == IF MemMapSet(kn_log)
                     THEN kn_env.word_mapped
                     ELSE kn_env.word_unmapped
           dtb == FixedDtb(word)
       IN /\ eproc_dtb_word' = word
          /\ kn_log' = Append(kn_log,
                [ev |-> "read_addr_arch", dtb |-> vat_dtb,
                 addr |-> eprocess_base, width |-> bits(kn_env.arch)])
          /\ IF dtb.some
               THEN vat_dtb' = dtb.val /\ sysproc_dtb' = dtb.val
               ELSE UNCHANGED vat_dtb /\ sysproc_dtb' = kernel_info_dtb
    /\ kernel_modules' = None
    /\ KernelNewFrame

NextKernelNew ==
    \/ KnMemMap
    \/ KnSysprocDtb

SpecKernelNew == InitKernelNew /\ [][NextKernelNew]_vars

\* the positions in the log of the events of one kind
EventsOf(ev) == { i \in 1..Len(kn_log) : kn_log[i].ev = ev }

\* C25: set_mem_map is called, once and before the DTB of the system
\* process is read, exactly when phys_mem_block is not 0 and the
\* descriptor at os_info.base + phys_mem_block parses, the descriptor being
\* read through the bootstrap DTB; then the DTB is read, and if the read
\* fails or the aligned value is null the kernel keeps kernel_info.dtb;
\* kernel_info and offsets are never modified, and the module-list memo
\* starts unset.
C25_FixupOrder ==
    /\ [](kernel_pc \in {"mapped", "ready"} =>
            /\ EventsOf("set_mem_map") # {} <=>
                  (kn_env.phys_mem_block # 0 /\ kn_env.parse_ok)
            /\ Cardinality(EventsOf("set_mem_map")) <= 1
            /\ \A i \in EventsOf("set_mem_map") :
                  /\ i > 1
                  /\ kn_log[i - 1].ev = "parse"
                  /\ kn_log[i - 1].dtb = kernel_info_dtb
                  /\ kn_log[i - 1].addr = OsInfoBase + kn_env.phys_mem_block
            /\ \A i \in EventsOf("set_mem_map"), j \in EventsOf("read_addr_arch") :
                  i < j)
    /\ [](kernel_pc = "ready" =>
            /\ Cardinality(EventsOf("read_addr_arch")) = 1
            /\ \A j \in EventsOf("read_addr_arch") : kn_log[j].dtb = kernel_info_dtb
            /\ (~eproc_dtb_word.ok \/
                as_page_aligned(eproc_dtb_word.val, PageSize) = NULL) =>
                  vat_dtb = kernel_info_dtb /\ sysproc_dtb = kernel_info_dtb
            /\ kernel_modules = None)
    /\ [][kn_env' = kn_env /\ kernel_info_dtb' = kernel_info_dtb]_vars

\* the memory map was installed, and the DTB read that followed it failed
C25_Witness ==
    /\ kernel_pc = "ready"
    /\ MemMapSet(kn_log)
    /\ ~eproc_dtb_word.ok
    /\ sysproc_dtb = kernel_info_dtb

(***************************************************************************)
(* The entry at which the walk stops (kernel.rs 544-575)                   *)
(***************************************************************************)
\* the LIST_ENTRY of a yielded EPROCESS address
EntryOf(eprocess) == eprocess + eproc_link

\* the loop breaks at this entry: its flink is null, the head or itself,
\* or its blink is null
StopsAt(m, entry) ==
    \/ m[entry] \in { NULL, list_start, entry }
    \/ m[entry + list_blink] = NULL

\* the Flink chain from the head is a circle of n distinct entries that
\* returns to the head, every blink is non-null and every word is readable
WellFormedCircular(m, n) ==
    /\ \A i \in 1..n : ChainAt(m, i) \in Entries
    /\ \A i, j \in 1..n : i # j => ChainAt(m, i) # ChainAt(m, j)
    /\ m[ChainAt(m, n)] = list_start
    /\ \A i \in 1..n : m[ChainAt(m, i) + list_blink] # NULL
    /\ unreadable = {}

\* C27: the entry at which the walk stops is never passed to the callback;
\* for a well-formed circular list of n entries that includes the start
\* entry, a walk the callback does not end yields exactly the first n-1
\* entries in forward order and omits the entry whose flink is the start.
C27_StopEntryNotYielded ==
    /\ \A i \in 1..Len(yielded) : ~StopsAt(mem, EntryOf(yielded[i]))
    /\ \A n \in 1..NumEntries :
          (WellFormedCircular(mem, n) /\ WalkDone /\ cb_ret # "false") =>
              /\ yielded = [ i \in 1..(n - 1) |-> ChainAt(mem, i) - eproc_link ]
              /\ \A i \in 1..Len(yielded) :
                    EntryOf(yielded[i]) # ChainAt(mem, n)

\* witness of C27: a finished walk over a circle of all NumEntries entries
\* yielded every entry but the last, whose flink is the start
C27_Witness ==
    /\ WellFormedCircular(mem, NumEntries)
    /\ WalkDone
    /\ cb_ret = "true"
    /\ walk_result = "Ok"
    /\ Len(yielded) = NumEntries - 1

(***************************************************************************)
(* Win32Keyboard::set_down against a running target (keyboard.rs 659-666): *)
(* the read and the write are two accesses of target memory, and the       *)
(* target changes its key state in between.                                *)
(***************************************************************************)
MaxTargetChanges == 2

\* the keys whose down bit the target changes while set_down runs: the
\* first key, its neighbour in the same byte, a key of the next byte and
\* the last key
TargetKeys == {0, 1, 4, 255}

\* the vk arguments of set_down: below the range, the first keys, a key of
\* the second byte, the last key, the accepted 256 and the first rejected
SetDownVks == {-1, 0, 1, 5, 255, 256, 257}

\* the target sets or clears the down bit of key k in its own memory
TargetFlip(ks, k) ==
    [ks EXCEPT ![get_ks_byte(k)] =
        IF is_key_down(ks, k) THEN @ - get_ks_down_bit(k)
                              ELSE @ + get_ks_down_bit(k)]

SetDownOthers == << walk_vars, ver_vars, kbd_vars, loc_vars, kern_vars, pi_vars, sig_vars, nt_vars, vo_vars, kp_vars, kn_vars >>

\* a Win32Keyboard over a key-state array of the target, before set_down
InitSetDown ==
    /\ sd_mem \in InitialKeyStates
    /\ sd_map \in {"rw", "ro", "unmapped"}
    /\ sd_pc = "idle"
    /\ sd_op = NoKbdOp
    /\ sd_buf = << >>
    /\ sd_seen = << >>
    /\ sd_writes = 0
    /\ sd_changes = 0
    /\ sd_out = "none"
    /\ WalkIdle
    /\ VersionIdle
    /\ KbdIdle
    /\ LocIdle
    /\ KernIdle
    /\ ProcInfoIdle
    /\ SigIdle
    /\ NtIdle
    /\ ViewIdle
    /\ KeyPathIdle
    /\ KernelNewIdle

\* if let Ok(mut buffer) = virt_mem.read::<[u8; 64]>(key_state_addr)
SetDownReadOk(map) == map \in {"rw", "ro"}

\* virt_mem.write(key_state_addr, &buffer) succeeds
SetDownWriteOk(map) == map = "rw"

\* set_down up to and including its read of the key state
SetDownRead(vk, down) ==
    /\ sd_pc = "idle"
    /\ sd_op' = [op |-> "set_down", vk |-> vk, down |-> down]
    /\ IF VkAccepted(vk) /\ SetDownReadOk(sd_map)
         THEN /\ sd_buf' = sd_mem
              /\ sd_pc' = "modify"
              /\ UNCHANGED sd_out
         ELSE /\ sd_pc' = "done"
              /\ sd_out' = "unit"
              /\ UNCHANGED sd_buf
    /\ UNCHANGED << sd_mem, sd_map, sd_seen, sd_writes, sd_changes >>
    /\ UNCHANGED SetDownOthers

\* set_key_down!(buffer, vk, down); virt_mem.write(..).ok(); return
SetDownWrite ==
    /\ sd_pc = "modify"
    /\ sd_pc' = "done"
    /\ IF IndexPanics(sd_buf, sd_op.vk)
         THEN /\ sd_out' = "panic"
              /\ UNCHANGED << sd_buf, sd_mem, sd_seen, sd_writes >>
         ELSE /\ sd_buf' = set_key_down(sd_buf, sd_op.vk, sd_op.down)
              /\ sd_seen' = sd_mem
              /\ sd_writes' = sd_writes + 1
              /\ sd_mem' = IF SetDownWriteOk(sd_map) THEN sd_buf' ELSE sd_mem
              /\ sd_out' = "unit"
    /\ UNCHANGED << sd_map, sd_op, sd_changes >>
    /\ UNCHANGED SetDownOthers

\* the target's own keyboard input: the down bit of key k changes
TargetChange(k) ==
    /\ sd_changes < MaxTargetChanges
    /\ sd_changes' = sd_changes + 1
    /\ sd_mem' = TargetFlip(sd_mem, k)
    /\ UNCHANGED << sd_map, sd_pc, sd_op, sd_buf, sd_seen, sd_writes, sd_out >>
    /\ UNCHANGED SetDownOthers

NextSetDown ==
    \/ \E vk \in SetDownVks, down \in BOOLEAN : SetDownRead(vk, down)
    \/ SetDownWrite
    \/ \E k \in TargetKeys : TargetChange(k)

SpecSetDown == InitSetDown /\ [][NextSetDown]_vars

\* the keys other than vk
OtherKeys(vk) == (0..255) \ {vk}

\* this step is set_down's write-back and the write succeeds
WritesBack == sd_pc = "modify" /\ sd_pc' = "done" /\ sd_writes' = sd_writes + 1
WriteLands == WritesBack /\ SetDownWriteOk(sd_map)

\* C28: set_down reads the 64 bytes, changes the bit of vk and writes the
\* 64 bytes back: after a write that succeeds every byte is the byte that
\* was read, but for the bit of vk, so what the target did to another key
\* since the read is overwritten with the value read. A failed read issues
\* no write, and a failed write changes nothing and set_down returns unit.
C28_LostUpdate ==
    /\ [][WriteLands =>
            /\ \A i \in KeyStateIndex \ {get_ks_byte(sd_op.vk)} :
                  sd_mem'[i] = sd_buf[i]
            /\ \A k \in OtherKeys(sd_op.vk) :
                  is_key_down(sd_mem', k) = is_key_down(sd_buf, k)
            /\ is_key_down(sd_mem', sd_op.vk) = sd_op.down]_vars
    /\ [][(WritesBack /\ ~SetDownWriteOk(sd_map)) =>
            (sd_mem' = sd_mem /\ sd_out' = "unit")]_vars
    /\ []((sd_pc = "done" /\ ~SetDownReadOk(sd_map)) =>
            (sd_writes = 0 /\ sd_out = "unit"))

\* witness of C28: the target changed another key between the read and a
\* write that succeeded, and the key has the value that was read
C28_Witness ==
    /\ sd_pc = "done"
    /\ sd_writes = 1
    /\ SetDownWriteOk(sd_map)
    /\ \E k \in OtherKeys(sd_op.vk) :
          /\ is_key_down(sd_seen, k) # is_key_down(sd_mem, k)
          /\ get_ks_byte(k) # get_ks_byte(sd_op.vk)
    /\ sd_mem = sd_buf

(***************************************************************************)
(* The wow64 fields of Win32ProcessInfo (kernel.rs 250-313)                *)
(***************************************************************************)
IsFromBaseInfo == pi_op = "process_info_from_base_info"

\* kernel_winver < (6, 2), or the first thread's TEB pointer is null
NoTebRecorded == ~TebIsRead(pi_winver) \/ pi_mem.teb = NULL

\* C30: process_info_from_base_info reads peb_wow64 only when it recorded
\* teb_wow64, and module_info_wow64 is Some only when peb_wow64 is non-null;
\* for a kernel version below (6, 2) or a null first-thread TEB the read is
\* not made and teb_wow64, peb_wow64 and module_info_wow64 are all None,
\* also for a process whose wow64 pointer is non-null.
C30_Wow64Fields ==
    IsFromBaseInfo =>
        /\ (pi_out.status = "Ok" /\ "peb_wow64" \in pi_reads) =>
              pi_out.teb_wow64.some
        /\ pi_out.module_info_wow64.some =>
              (pi_out.peb_wow64.some /\ pi_out.peb_wow64.val # NULL)
        /\ NoTebRecorded =>
              /\ "peb_wow64" \notin pi_reads
              /\ "module_info_wow64" \notin pi_reads
              /\ pi_out.teb_wow64 = None
              /\ pi_out.peb_wow64 = None
              /\ pi_out.module_info_wow64 = None

\* witness of C30: a process with a non-null wow64 pointer and a non-null
\* 32-bit PEB, of another architecture than the kernel, returned without
\* any wow64 field because the kernel is older than (6, 2)
C30_Witness ==
    /\ IsFromBaseInfo
    /\ pi_out.status = "Ok"
    /\ ~TebIsRead(pi_winver)
    /\ pi_out.wow64 # NULL
    /\ pi_out.proc_arch # pi_out.sys_arch
    /\ pi_mem.teb # NULL
    /\ pi_mem.peb_wow64 # NULL
    /\ pi_out.teb_wow64 = None
    /\ pi_out.peb_wow64 = None
    /\ pi_out.module_info_wow64 = None

====
